---- MODULE Spec2Model ----
(***************************************************************************)
(* State-machine model of VideFacsRouter (src/src/vide-facs-router.js):    *)
(* URL-driven navigation, edition loading and the OpenSeadragon viewer     *)
(* life cycle.                                                             *)
(*                                                                         *)
(* Encoding of JavaScript values                                           *)
(*   string     a tuple of one-character strings, "p2" is <<"p","2">>      *)
(*   null       Null, undefined  Undefined (where a string or a number is  *)
(*              expected)                                                  *)
(*   number n   Num(n), NaN is NaN                                         *)
(*   object     a record; an absent object or array reference is NoObj     *)
(***************************************************************************)
EXTENDS Integers, Sequences, FiniteSets, TLC

\* ------------------------------------------------------------------------
\* Bounds of the model
\* ------------------------------------------------------------------------

\* number of route-triggering user events (initial load, clicks, back/forward)
MaxNavs == 2

\* the same bound for the specification of longer sessions
MaxNavsLong == 3

\* number of pages of the edition served for NK
NumPages == 3

\* largest edition in the specification of the page controls
MaxTotal == 6

\* number of click listeners on one #toggle-preview button up to which direct
\* calls of switchPages and setupPagePreviews are followed
MaxListeners == 4

\* ------------------------------------------------------------------------
\* JavaScript values
\* ------------------------------------------------------------------------

Null == <<"null">>

Undefined == <<"undefined">>

NaN == <<"NaN">>

Num(n) == <<"num", n>>

IsNum(v) == Len(v) = 2 /\ v[1] = "num"

\* truthiness of a value that is a string, null or undefined
TruthyStr(v) == v /= Null /\ v /= Undefined /\ v /= <<>>

\* truthiness of a value that is a number, NaN, null or undefined
TruthyNum(v) == IsNum(v) /\ v[2] /= 0

\* an object or array reference that is null or undefined
NoObj == [absent |-> TRUE]

\* truthiness of an object or array reference
TruthyObj(v) == v /= NoObj

\* an array value (arrays are truthy even when empty)
Arr(items) == [items |-> items]

\* ------------------------------------------------------------------------
\* String primitives used by the router
\* ------------------------------------------------------------------------

Digits == {"0", "1", "2", "3", "4", "5", "6", "7", "8", "9"}

DigitVal == ("0" :> 0) @@ ("1" :> 1) @@ ("2" :> 2) @@ ("3" :> 3) @@ ("4" :> 4)
            @@ ("5" :> 5) @@ ("6" :> 6) @@ ("7" :> 7) @@ ("8" :> 8) @@ ("9" :> 9)

\* String.prototype.startsWith
StartsWith(s, pre) == Len(s) >= Len(pre) /\ SubSeq(s, 1, Len(pre)) = pre

\* String.prototype.substring(k) / slice(k) with 0 <= k
Substring(s, k) == SubSeq(s, k + 1, Len(s))

\* String.prototype.includes for a one-character needle
Includes(s, ch) == \E i \in 1..Len(s) : s[i] = ch

\* index of the first occurrence of ch in s, 0 when absent
RECURSIVE FirstIndex(_, _, _)
FirstIndex(s, ch, i) ==
    IF i > Len(s) THEN 0
    ELSE IF s[i] = ch THEN i
    ELSE FirstIndex(s, ch, i + 1)

\* String.prototype.split(ch): the pieces between the separators
RECURSIVE Split(_, _)
Split(s, ch) ==
    LET k == FirstIndex(s, ch, 1) IN
    IF k = 0 THEN <<s>>
    ELSE <<SubSeq(s, 1, k - 1)>> \o Split(SubSeq(s, k + 1, Len(s)), ch)

\* Array.prototype.filter(s => s) on an array of strings
RECURSIVE FilterNonEmpty(_)
FilterNonEmpty(a) ==
    IF a = <<>> THEN <<>>
    ELSE IF Head(a) = <<>> THEN FilterNonEmpty(Tail(a))
    ELSE <<Head(a)>> \o FilterNonEmpty(Tail(a))

\* length of the longest prefix of s made of decimal digits
RECURSIVE DigitPrefixLen(_, _)
DigitPrefixLen(s, i) ==
    IF i > Len(s) \/ s[i] \notin Digits THEN i - 1
    ELSE DigitPrefixLen(s, i + 1)

\* value of a non-empty string of decimal digits
RECURSIVE DigitsValue(_, _)
DigitsValue(s, acc) ==
    IF s = <<>> THEN acc
    ELSE DigitsValue(Tail(s), acc * 10 + DigitVal[Head(s)])

\* parseInt(s, 10): optional sign, then the longest digit prefix; NaN if none
ParseInt(s) ==
    LET neg == s /= <<>> /\ Head(s) = "-"
        body == IF s /= <<>> /\ Head(s) \in {"-", "+"} THEN Tail(s) ELSE s
        n == DigitPrefixLen(body, 1)
    IN  IF n = 0 THEN NaN
        ELSE IF neg THEN Num(0 - DigitsValue(SubSeq(body, 1, n), 0))
        ELSE Num(DigitsValue(SubSeq(body, 1, n), 0))


\* Number -> decimal string for a natural number (template literal `${n}`)
RECURSIVE NatToStr(_)
NatToStr(n) ==
    LET d == CHOOSE c \in Digits : DigitVal[c] = n % 10 IN
    IF n < 10 THEN <<d>> ELSE NatToStr(n \div 10) \o <<d>>

\* ------------------------------------------------------------------------
\* Program constants and the inputs the model draws from
\* ------------------------------------------------------------------------

\* this.basePath
basePath == <<"/", "f", "a", "c", "s">>

sNK == <<"N", "K">>

sXX == <<"X", "X">>

sConstructor == <<"c", "o", "n", "s", "t", "r", "u", "c", "t", "o", "r">>

\* const editionUrls = { 'NK': '/temp/edition.json' }
editionUrls == (sNK :> "/temp/edition.json")

\* property names every object literal inherits from Object.prototype (a
\* sample); editionUrls[k] evaluates to a function for them, not to undefined
ObjectPrototypeKeys == {sConstructor}

\* editionUrls[manifestId]: own property, inherited property, or undefined ("")
LookupEditionUrl(manifestId) ==
    IF manifestId \in DOMAIN editionUrls THEN editionUrls[manifestId]
    ELSE IF manifestId \in ObjectPrototypeKeys THEN "function Object() { [native code] }"
    ELSE ""

\* "/" followed by every segment and a "/" : the path "/NK/p2/"
RECURSIVE MkPath(_)
MkPath(segs) ==
    IF segs = <<>> THEN <<"/">>
    ELSE <<"/">> \o Head(segs) \o MkPath(Tail(segs))

segP2 == <<"p", "2">>

segP2to3 == <<"p", "2", "-", "3">>

segP9 == <<"p", "9">>

segWz25 == <<"w", "z", "2", ".", "5">>

segFoo == <<"f", "o", "o">>

\* the relative paths the user events of the model carry
Paths ==
    { MkPath(<<>>),
      MkPath(<<sNK>>),
      MkPath(<<sNK, segP2>>),
      MkPath(<<sNK, segP2to3>>),
      MkPath(<<sNK, segP2, segWz25>>),
      MkPath(<<sNK, segP9>>),
      MkPath(<<sNK, segP2, segFoo>>),
      MkPath(<<sXX>>),
      MkPath(<<sConstructor>>) }

\* window.location.pathname values: the base path followed by a relative path
Locations == { basePath \o p : p \in Paths }

\* href values handed to navigate(): absolute (with base path) or relative
Hrefs == Locations \cup { MkPath(<<sNK, segP2>>), SubSeq(MkPath(<<sNK>>), 2, 4) }

\* values of the _path query parameter at start: absent, or a path
PathParams == {Null, MkPath(<<sNK, segP2>>)}

segWzX5 == <<"w", "z", "X", ".", "5">>

segFilterAll == <<"f", "i", "l", "t", "e", "r", ":", "a", "l", "l", "P", "a", "g", "e", "s">>

\* paths with zone and filter segments, for the sessions about zones
ZonePaths ==
    { MkPath(<<sNK, segP2>>),
      MkPath(<<sNK, segP2, segWz25>>),
      MkPath(<<sNK, segP2, segWzX5>>),
      MkPath(<<sNK, segP2, segFilterAll, segWz25>>),
      MkPath(<<sNK, segP2, segWz25, segFilterAll>>),
      MkPath(<<sNK, segP2to3, segWz25>>) }

ZoneLocations == { basePath \o p : p \in ZonePaths }

\* manifest ids occurring in the paths
ManifestIds == {sNK, sXX, sConstructor}

\* a page object of the edition instance parsed from the response of fetch ed
Page(ed, i) == [ed |-> ed, idx |-> i]

\* an edition document of n pages, parsed for fetch ed
EditionDocOf(ed, n) ==
    [hasSource |-> TRUE, label |-> "NK", pages |-> Arr([i \in 1..n |-> Page(ed, i)])]

\* the edition document served at /temp/edition.json, parsed for fetch ed
EditionDoc(ed) == EditionDocOf(ed, NumPages)

\* a document without a source member
BadDoc == [hasSource |-> FALSE, label |-> "", pages |-> NoObj]

\* elements of the response body: header objects and arrays
HeaderItem == [isArray |-> FALSE, elems |-> <<>>]

ArrayItem(elems) == [isArray |-> TRUE, elems |-> elems]

\* the responses a fetch of the edition URL can have
EditionResponses(ed) ==
    { [ok |-> FALSE, status |-> 404, json |-> FALSE, body |-> <<>>],
      [ok |-> TRUE, status |-> 200, json |-> FALSE, body |-> <<>>],
      [ok |-> TRUE, status |-> 200, json |-> TRUE,
       body |-> <<HeaderItem, HeaderItem, HeaderItem, HeaderItem,
                  ArrayItem(<<EditionDoc(ed)>>)>>],
      [ok |-> TRUE, status |-> 200, json |-> TRUE,
       body |-> <<HeaderItem, ArrayItem(<<>>), ArrayItem(<<EditionDoc(ed)>>)>>],
      [ok |-> TRUE, status |-> 200, json |-> TRUE, body |-> <<HeaderItem, HeaderItem>>],
      [ok |-> TRUE, status |-> 200, json |-> TRUE, body |-> <<HeaderItem, ArrayItem(<<>>)>>],
      [ok |-> TRUE, status |-> 200, json |-> TRUE, body |-> <<ArrayItem(<<BadDoc>>)>>] }

\* a request for anything else is answered without edition data
OtherResponses ==
    { [ok |-> FALSE, status |-> 404, json |-> FALSE, body |-> <<>>],
      [ok |-> TRUE, status |-> 200, json |-> FALSE, body |-> <<>>] }

ResponsesFor(f) ==
    IF f.url = editionUrls[sNK] THEN EditionResponses(f.nav) ELSE OtherResponses

\* ------------------------------------------------------------------------
\* Views put into the content element
\* ------------------------------------------------------------------------

\* nothing rendered yet
BlankView == [view |-> "blank", title |-> "", msg |-> "", arg |-> <<>>, backLink |-> <<>>]

\* templates.loading
LoadingView == [view |-> "loading", title |-> "", msg |-> "Loading edition data...",
                arg |-> <<>>, backLink |-> <<>>]

\* templates.facsimileViewer
ViewerView == [view |-> "viewer", title |-> "", msg |-> "", arg |-> <<>>, backLink |-> <<>>]

\* templates.error(title, message, backLink); arg is the text interpolated
\* into the message
ErrorView(title, msg, arg, backLink) ==
    [view |-> "error", title |-> title, msg |-> msg, arg |-> arg, backLink |-> backLink]


\* ------------------------------------------------------------------------
\* State
\* ------------------------------------------------------------------------

VARIABLES
    started,               \* the constructor has run init()
    viewer,                \* this.viewer: NoObj or [id, world, clips, queue, fits, bounds]
    currentManifestId,     \* this.currentManifestId
    currentPageSpec,       \* this.currentPageSpec
    currentZoneLabel,      \* this.currentZoneLabel
    currentZonePageIndex,  \* this.currentZonePageIndex
    currentEdition,        \* this.currentEdition
    currentPages,          \* this.currentPages
    restrictToCurrentPage, \* this.restrictToCurrentPage: "undefined", "true", "false"
    pagesToLoad,           \* this.pagesToLoad
    currentPageIndices,    \* this.currentPageIndices
    content,               \* what contentEl.setContent last rendered
    zonesList,             \* the rendered .zones-list, NoObj when not in the DOM
    pageNav,               \* #prev-page, #next-page, #page-info, #toggle-margins and
                           \* #page-preview-container, NoObj when not in the DOM
    location,              \* window.location.pathname
    clipMargins,           \* this.clipMargins: "undefined", "true", "false"
    zoneKeyboardHandler,   \* [set: this.zoneKeyboardHandler is defined,
                           \*  listeners: keydown listeners registered on document]
    fetches,               \* loadManifestAndRender calls suspended at await fetch
    timers,                \* pending setTimeout(() => initOpenSeadragon(pages), 0)
    previewTimers,         \* pending setTimeout(() => ... setupPagePreviews(...), 100)
    scriptsPending,        \* script elements whose onload has not fired yet
    osdDefined,            \* typeof OpenSeadragon !== 'undefined'
    fetchCount,            \* observation: fetch requests issued, per manifest id
    destroyCalls,          \* observation: calls of viewer.destroy()
    viewersCreated,        \* observation: viewers constructed so far
    uncaught,              \* observation: an exception left a handler
    cleanup,               \* observation: what cleanupViewer did in the last step
    pushed,                \* observation: URLs given to history.pushState in the last step
    navCount,              \* observation: user navigations so far
    ev,                    \* observation: the last step taken
    lastNav,               \* observation: the most recent user navigation
    raced,                 \* observation: a navigation overlapped pending work
    failedNavs,            \* observation: a navigation has ended in an error view
    loaded                 \* observation: manifest ids loaded successfully

\* no call of cleanupViewer in the step
NoCleanup == [called |-> FALSE, threw |-> FALSE, left |-> FALSE]

\* the fields the handlers read and write, as one record
progVars ==
    <<viewer, currentManifestId, currentPageSpec, currentZoneLabel, currentZonePageIndex,
      currentEdition, currentPages, restrictToCurrentPage, pagesToLoad,
      currentPageIndices, content, zonesList, pageNav, location, clipMargins,
      zoneKeyboardHandler, fetches, timers, previewTimers,
      scriptsPending, osdDefined, fetchCount, destroyCalls, viewersCreated, uncaught, cleanup, pushed>>

vars == <<started, progVars, navCount, ev, lastNav, raced, failedNavs, loaded>>

This ==
    [viewer |-> viewer, currentManifestId |-> currentManifestId,
     currentPageSpec |-> currentPageSpec, currentZoneLabel |-> currentZoneLabel,
     currentZonePageIndex |-> currentZonePageIndex, currentEdition |-> currentEdition,
     currentPages |-> currentPages, restrictToCurrentPage |-> restrictToCurrentPage,
     pagesToLoad |-> pagesToLoad, currentPageIndices |-> currentPageIndices,
     content |-> content, zonesList |-> zonesList, pageNav |-> pageNav,
     location |-> location, clipMargins |-> clipMargins,
     zoneKeyboardHandler |-> zoneKeyboardHandler, fetches |-> fetches,
     timers |-> timers, previewTimers |-> previewTimers,
     scriptsPending |-> scriptsPending, osdDefined |-> osdDefined,
     fetchCount |-> fetchCount, destroyCalls |-> destroyCalls,
     viewersCreated |-> viewersCreated, uncaught |-> uncaught, cleanup |-> NoCleanup,
     pushed |-> <<>>]

\* the state a handler leaves behind
Becomes(s) ==
    /\ viewer' = s.viewer
    /\ currentManifestId' = s.currentManifestId
    /\ currentPageSpec' = s.currentPageSpec
    /\ currentZoneLabel' = s.currentZoneLabel
    /\ currentZonePageIndex' = s.currentZonePageIndex
    /\ currentEdition' = s.currentEdition
    /\ currentPages' = s.currentPages
    /\ restrictToCurrentPage' = s.restrictToCurrentPage
    /\ pagesToLoad' = s.pagesToLoad
    /\ currentPageIndices' = s.currentPageIndices
    /\ content' = s.content
    /\ zonesList' = s.zonesList
    /\ pageNav' = s.pageNav
    /\ location' = s.location
    /\ clipMargins' = s.clipMargins
    /\ zoneKeyboardHandler' = s.zoneKeyboardHandler
    /\ fetches' = s.fetches
    /\ timers' = s.timers
    /\ previewTimers' = s.previewTimers
    /\ scriptsPending' = s.scriptsPending
    /\ osdDefined' = s.osdDefined
    /\ fetchCount' = s.fetchCount
    /\ destroyCalls' = s.destroyCalls
    /\ viewersCreated' = s.viewersCreated
    /\ uncaught' = s.uncaught
    /\ cleanup' = s.cleanup
    /\ pushed' = s.pushed

\* ------------------------------------------------------------------------
\* Pure helpers of the router
\* ------------------------------------------------------------------------

\* Array.prototype.indexOf(p) + 1 on an array of page objects
RECURSIVE IndexOfPlus1(_, _, _)
IndexOfPlus1(items, p, i) ==
    IF i > Len(items) THEN 0
    ELSE IF items[i] = p THEN i
    ELSE IndexOfPlus1(items, p, i + 1)

\* this.currentPages[n - 1] for a parsed number n: the page or NoObj (undefined)
PageAt(pages, n) ==
    IF IsNum(n) /\ n[2] >= 1 /\ n[2] <= Len(pages.items) THEN pages.items[n[2]]
    ELSE NoObj

\* [..].filter(p => p)
RECURSIVE FilterDefined(_)
FilterDefined(a) ==
    IF a = <<>> THEN <<>>
    ELSE IF Head(a) = NoObj THEN FilterDefined(Tail(a))
    ELSE <<Head(a)>> \o FilterDefined(Tail(a))

\* parsePageSpec(pageSpec): the page objects a page spec names
parsePageSpec(s, pageSpec) ==
    IF ~TruthyObj(s.currentPages) THEN <<>>
    ELSE IF ~TruthyStr(pageSpec) THEN
        <<IF Len(s.currentPages.items) >= 1 THEN s.currentPages.items[1] ELSE NoObj>>
    ELSE IF Includes(pageSpec, "-") THEN
        LET parts == Split(pageSpec, "-")
            left == ParseInt(parts[1])
            right == ParseInt(parts[2])
        IN  FilterDefined(<<PageAt(s.currentPages, left), PageAt(s.currentPages, right)>>)
    ELSE FilterDefined(<<PageAt(s.currentPages, ParseInt(pageSpec))>>)

\* pages.map(p => this.currentPages.indexOf(p) + 1)
PageIndices(s, pages) ==
    [i \in 1..Len(pages) |-> IndexOfPlus1(s.currentPages.items, pages[i], 1)]


\* ------------------------------------------------------------------------
\* Handlers.  Each takes the state record s and returns the state it leaves.
\* An exception that leaves a function sets s.uncaught and ends the handler.
\* ------------------------------------------------------------------------

\* cleanupViewer() without its try / catch: a throwing destroy() leaves the
\* function before this.viewer = null
cleanupViewerNoCatch(s, throws) ==
    LET r == IF TruthyObj(s.viewer) THEN
                 IF throws THEN [s EXCEPT !.destroyCalls = @ + 1, !.uncaught = TRUE]
                 ELSE [s EXCEPT !.viewer = NoObj, !.destroyCalls = @ + 1]
             ELSE s
    IN  [r EXCEPT !.cleanup = [called |-> TRUE, threw |-> TruthyObj(s.viewer) /\ throws,
                               left |-> TruthyObj(r.viewer)]]

\* cleanupViewer(); throws: whether viewer.destroy() throws.  cleanup records
\* whether destroy threw and whether a viewer is still referenced on return
cleanupViewer(s, throws) ==
    LET r == IF TruthyObj(s.viewer)
             THEN [s EXCEPT !.viewer = NoObj, !.destroyCalls = @ + 1]
             ELSE s
    IN  [r EXCEPT !.cleanup = [called |-> TRUE, threw |-> TruthyObj(s.viewer) /\ throws,
                               left |-> TruthyObj(r.viewer)]]

\* renderNotFound(path)
renderNotFound(s, path) ==
    [s EXCEPT !.content = ErrorView("404 - Not Found", "The path was not found.", path,
                                    basePath \o <<"/">>),
              !.zonesList = NoObj, !.pageNav = NoObj]

\* path.split('/').filter(s => s)
Segments(path) == FilterNonEmpty(Split(path, "/"))

\* getCurrentPath() for the location pathname fullPath
getCurrentPath(fullPath) ==
    IF StartsWith(fullPath, basePath)
    THEN (IF Substring(fullPath, Len(basePath)) = <<>> THEN <<"/">>
          ELSE Substring(fullPath, Len(basePath)))
    ELSE <<"/">>

\* getCurrentManifestId(): the first segment of the location's relative path
getCurrentManifestId(s) ==
    LET segments == Segments(getCurrentPath(s.location)) IN
    IF Len(segments) > 0 THEN segments[1] ELSE sNK

\* getFilterSpec(): 'allPages' unless restrictToCurrentPage is truthy, else null
getFilterSpec(s) ==
    IF s.restrictToCurrentPage /= "true"
    THEN <<"a", "l", "l", "P", "a", "g", "e", "s">>
    ELSE Null

\* the page controls of a freshly rendered viewer view: enabled, no handler
FreshPageNav ==
    [info |-> <<>>, prevDisabled |-> FALSE, nextDisabled |-> FALSE,
     prevPath |-> Null, nextPath |-> Null, toggleListeners |-> 0,
     thumbnails |-> <<>>, thumbManifestId |-> Null, previewListeners |-> 0]

\* prevPageSpec and nextPageSpec without the branch for the spread before the
\* last page
PageNavSpecsNoLast(spread, totalPages) ==
    IF Len(spread) = 2 THEN
        LET leftPage == spread[1]
            rightPage == spread[2]
        IN  [prev |-> IF leftPage > 2
                          THEN NatToStr(leftPage - 2) \o <<"-">> \o NatToStr(leftPage - 1)
                      ELSE IF leftPage = 2 THEN <<"1">>
                      ELSE Null,
             next |-> IF rightPage < totalPages - 1
                          THEN NatToStr(rightPage + 1) \o <<"-">> \o NatToStr(rightPage + 2)
                      ELSE Null]
    ELSE
        LET page == spread[1]
        IN  [prev |-> IF page > 1 THEN NatToStr(page - 1) ELSE Null,
             next |-> IF page < totalPages THEN NatToStr(page + 1) ELSE Null]

\* prevPageSpec and nextPageSpec of setupPageNavigation for the page numbers
\* spread (its parameter currentPages); Null when there is none
PageNavSpecs(spread, totalPages) ==
    IF Len(spread) = 2 THEN
        LET leftPage == spread[1]
            rightPage == spread[2]
        IN  [prev |-> IF leftPage > 2
                          THEN NatToStr(leftPage - 2) \o <<"-">> \o NatToStr(leftPage - 1)
                      ELSE IF leftPage = 2 THEN <<"1">>
                      ELSE Null,
             next |-> IF rightPage < totalPages - 1
                          THEN NatToStr(rightPage + 1) \o <<"-">> \o NatToStr(rightPage + 2)
                      ELSE IF rightPage = totalPages - 1 THEN NatToStr(totalPages)
                      ELSE Null]
    ELSE
        LET page == spread[1]
        IN  [prev |-> IF page > 1 THEN NatToStr(page - 1) ELSE Null,
             next |-> IF page < totalPages THEN NatToStr(page + 1) ELSE Null]

\* the path a prev / next handler navigates to
PageNavPath(manifestId, pageSpec, filterSpec) ==
    basePath \o <<"/">> \o manifestId \o <<"/", "p">> \o pageSpec \o <<"/">>
        \o (IF TruthyStr(filterSpec)
            THEN <<"f", "i", "l", "t", "e", "r", ":">> \o filterSpec \o <<"/">>
            ELSE <<>>)

\* setupPageNavigation(currentPages, totalPages)
setupPageNavigation(s, spread, totalPages) ==
    IF s.pageNav = NoObj THEN s
    ELSE LET specs == PageNavSpecs(spread, totalPages)
             manifestId == getCurrentManifestId(s)
             filterSpec == getFilterSpec(s)
         IN  [s EXCEPT !.pageNav =
                  [info |-> <<spread, totalPages>>,
                   prevDisabled |-> ~TruthyStr(specs.prev),
                   nextDisabled |-> ~TruthyStr(specs.next),
                   prevPath |-> IF TruthyStr(specs.prev)
                                THEN PageNavPath(manifestId, specs.prev, filterSpec)
                                ELSE @.prevPath,
                   nextPath |-> IF TruthyStr(specs.next)
                                THEN PageNavPath(manifestId, specs.next, filterSpec)
                                ELSE @.nextPath,
                   toggleListeners |-> @.toggleListeners,
                   thumbnails |-> @.thumbnails,
                   thumbManifestId |-> @.thumbManifestId,
                   previewListeners |-> @.previewListeners]]

\* the while loop of setupPagePreviews from index i on: the first page alone,
\* then groups of two; a group is its dataset.pages and the pages with an image
RECURSIVE ThumbnailLoop(_, _, _)
ThumbnailLoop(total, i, groups) ==
    IF i >= total THEN groups
    ELSE IF i = 0
    THEN ThumbnailLoop(total, i + 1, Append(groups, [pages |-> <<"1">>, imgs |-> <<1>>]))
    ELSE LET leftPage == i + 1
             rightPage == i + 2
             hasRight == i + 1 < total
         IN  ThumbnailLoop(total, i + 2,
                 Append(groups,
                        [pages |-> IF hasRight
                                   THEN NatToStr(leftPage) \o <<"-">> \o NatToStr(rightPage)
                                   ELSE NatToStr(leftPage),
                         imgs |-> IF hasRight THEN <<leftPage, rightPage>>
                                  ELSE <<leftPage>>]))

\* the thumbnail groups of an edition of total pages, every group a pair
ThumbnailGroupsPairsOnly(total) ==
    [k \in 1..((total + 1) \div 2) |->
        IF 2 * k <= total
        THEN [pages |-> NatToStr(2 * k - 1) \o <<"-">> \o NatToStr(2 * k),
              imgs |-> <<2 * k - 1, 2 * k>>]
        ELSE [pages |-> NatToStr(2 * k - 1), imgs |-> <<2 * k - 1>>]]

\* the thumbnail groups setupPagePreviews builds for total pages
ThumbnailGroups(total) == ThumbnailLoop(total, 0, <<>>)

\* setupPagePreviews(currentPages): the thumbnail groups, whose click
\* listeners close over manifestId, and one more click listener on
\* #toggle-preview
setupPagePreviews(s, spread) ==
    IF s.pageNav = NoObj \/ ~TruthyObj(s.currentPages) THEN s
    ELSE [s EXCEPT !.pageNav = [@ EXCEPT !.thumbnails =
                                   ThumbnailGroups(Len(s.currentPages.items)),
                                !.thumbManifestId = getCurrentManifestId(s),
                                !.previewListeners = @ + 1]]

\* setupZoomControls(): one more click listener on #toggle-margins
setupZoomControls(s) ==
    IF s.pageNav = NoObj THEN s
    ELSE [s EXCEPT !.pageNav = [@ EXCEPT !.toggleListeners = @ + 1]]

\* ------------------------------------------------------------------------
\* Page placement.  JavaScript numbers are modelled as exact fractions
\* <<numerator, denominator>> in lowest terms with a positive denominator.
\* ------------------------------------------------------------------------

Abs(n) == IF n < 0 THEN 0 - n ELSE n

RECURSIVE Gcd(_, _)
Gcd(a, b) == IF b = 0 THEN a ELSE Gcd(b, a % b)

Rat(n, d) ==
    LET g == Gcd(Abs(n), Abs(d))
        sgn == IF d < 0 THEN 0 - 1 ELSE 1
    IN  <<(Abs(n) \div g) * (IF n < 0 THEN 0 - sgn ELSE sgn), Abs(d) \div g>>

RInt(n) == <<n, 1>>

RAdd(a, b) == Rat(a[1] * b[2] + b[1] * a[2], a[2] * b[2])

RSub(a, b) == Rat(a[1] * b[2] - b[1] * a[2], a[2] * b[2])

RMul(a, b) == Rat(a[1] * b[1], a[2] * b[2])

RDiv(a, b) == Rat(a[1] * b[2], a[2] * b[1])

RLe(a, b) == a[1] * b[2] <= b[1] * a[2]

\* Infinity and -Infinity
PosInf == <<"Infinity">>

NegInf == <<"-Infinity">>

\* Math.min / Math.max on a running extreme and a finite number
MathMin(a, b) == IF a = PosInf THEN b ELSE IF RLe(a, b) THEN a ELSE b

MathMax(a, b) == IF a = NegInf THEN b ELSE IF RLe(b, a) THEN a ELSE b

\* px, mm and position of a page: pixel width and height of the image, the
\* xywh rectangle of the page inside it, the page size in mm, verso or recto
Geo(pxWidth, pxHeight, x, y, w, h, mmWidth, mmHeight, verso) ==
    [pxWidth |-> pxWidth, pxHeight |-> pxHeight, x |-> x, y |-> y, w |-> w, h |-> h,
     mmWidth |-> mmWidth, mmHeight |-> mmHeight, verso |-> verso]

\* page geometries of the editions: rectos and versos of different sizes, with
\* and without margins around the page
Geometries ==
    << Geo(400, 600, 20, 30, 360, 540, 180, 270, FALSE),
       Geo(300, 500, 0, 10, 300, 480, 100, 160, TRUE),
       Geo(500, 400, 50, 0, 400, 400, 200, 200, TRUE),
       Geo(300, 200, 10, 10, 70, 50, 30, 20, FALSE) >>

\* the geometry of a page object: its own, or for the pages of the served
\* edition a recto for odd and a verso for even page numbers
Geometry(page) ==
    IF "geo" \in DOMAIN page THEN page.geo
    ELSE IF page.idx % 2 = 1 THEN Geometries[1] ELSE Geometries[2]

\* calculatePagePosition(page): x, y and width of the image in mm
calculatePagePosition(page) ==
    LET g == Geometry(page)
        mmPerPx == RDiv(RInt(g.mmWidth), RInt(g.w))
        fullImageWidthMm == RMul(RInt(g.pxWidth), mmPerPx)
        xywhCenterPxX == RAdd(RInt(g.x), RDiv(RInt(g.w), RInt(2)))
        xywhCenterPxY == RAdd(RInt(g.y), RDiv(RInt(g.h), RInt(2)))
        xywhCenterMmX == RMul(xywhCenterPxX, mmPerPx)
        xywhCenterMmY == RMul(xywhCenterPxY, mmPerPx)
        pageTargetX == IF g.verso THEN RInt(0 - g.mmWidth) ELSE RInt(0)
        pageTargetY == RInt(0)
        pageCenterX == RAdd(pageTargetX, RDiv(RInt(g.mmWidth), RInt(2)))
        pageCenterY == RAdd(pageTargetY, RDiv(RInt(g.mmHeight), RInt(2)))
    IN  [x |-> RSub(pageCenterX, xywhCenterMmX),
         y |-> RSub(pageCenterY, xywhCenterMmY),
         width |-> fullImageWidthMm]

\* new OpenSeadragon.Rect(x, y, width, height)
Rect(x, y, width, height) == [x |-> x, y |-> y, width |-> width, height |-> height]

\* the running minX, maxX, minY, maxY after pages[1..n]
RECURSIVE Extent(_, _)
Extent(pages, n) ==
    IF n = 0 THEN [minX |-> PosInf, maxX |-> NegInf, minY |-> PosInf, maxY |-> NegInf]
    ELSE LET e == Extent(pages, n - 1)
             page == pages[n]
             config == calculatePagePosition(page)
             imgMinX == config.x
             imgMaxX == RAdd(config.x, config.width)
             imgMinY == config.y
             imgMaxY == RAdd(config.y,
                             RMul(config.width,
                                  RDiv(RInt(Geometry(page).pxHeight),
                                       RInt(Geometry(page).pxWidth))))
         IN  [minX |-> MathMin(e.minX, imgMinX), maxX |-> MathMax(e.maxX, imgMaxX),
              minY |-> MathMin(e.minY, imgMinY), maxY |-> MathMax(e.maxY, imgMaxY)]

\* the world bounds without the padding
WorldBoundsNoPadding(pages) ==
    LET e == Extent(pages, Len(pages))
    IN  Rect(e.minX, e.minY, RSub(e.maxX, e.minX), RSub(e.maxY, e.minY))

\* worldBounds as createViewer computes it for the pages to load
WorldBoundsCreate(pages) ==
    LET e == Extent(pages, Len(pages))
        padding == RInt(50)
        minX == RSub(e.minX, padding)
        maxX == RAdd(e.maxX, padding)
        minY == RSub(e.minY, padding)
        maxY == RAdd(e.maxY, padding)
    IN  Rect(minX, minY, RSub(maxX, minX), RSub(maxY, minY))

\* worldBounds as switchPages computes it for the new pages
WorldBoundsSwitch(pages) ==
    LET e == Extent(pages, Len(pages))
        padding == RInt(50)
        minX == RSub(e.minX, padding)
        maxX == RAdd(e.maxX, padding)
        minY == RSub(e.minY, padding)
        maxY == RAdd(e.maxY, padding)
    IN  Rect(minX, minY, RSub(maxX, minX), RSub(maxY, minY))

\* the worldBounds of a viewer are kept as the function that computed them and
\* the pages it computed them for
BoundsBy(fn, pages) == [fn |-> fn, pages |-> pages]

\* the rectangle a kept worldBounds stands for
BoundsRect(b) ==
    IF b.fn = "createViewer" THEN WorldBoundsCreate(b.pages) ELSE WorldBoundsSwitch(b.pages)

\* ------------------------------------------------------------------------
\* Zone list
\* ------------------------------------------------------------------------

\* the for loop of setupWritingZones that fills pagePairs, from index i on
RECURSIVE PagePairsLoop(_, _, _)
PagePairsLoop(pagesToShow, i, pagePairs) ==
    IF i >= Len(pagesToShow) THEN pagePairs
    ELSE IF pagesToShow[i + 1] = 1 THEN PagePairsLoop(pagesToShow, i + 2, pagePairs)
    ELSE PagePairsLoop(pagesToShow, i + 2,
             Append(pagePairs,
                    IF i + 1 < Len(pagesToShow)
                    THEN <<pagesToShow[i + 1], pagesToShow[i + 2]>>
                    ELSE <<pagesToShow[i + 1]>>))

\* pagePairs of setupWritingZones: page 1 alone, then the listed pages two by two
PagePairs(pagesToShow) ==
    PagePairsLoop(pagesToShow,
                  IF Len(pagesToShow) > 0 /\ pagesToShow[1] = 1 THEN 1 ELSE 0,
                  IF \E k \in 1..Len(pagesToShow) : pagesToShow[k] = 1
                  THEN << <<1>> >> ELSE <<>>)

\* a writing zone: its label and wzProps.pos (NoObj when it has none)
Zone(label, pos) == [label |-> label, pos |-> pos]

Pos(x, y, w, h) == [x |-> x, y |-> y, w |-> w, h |-> h]

\* page.writingZones in the order of the edition document: the page's own, or
\* for the pages of the served edition zones inside the page; every third page
\* has none
WritingZones(page) ==
    IF "zones" \in DOMAIN page THEN page.zones
    ELSE IF page.idx % 3 = 1 THEN << Zone(<<"5">>, Pos(30, 60, 120, 90)) >>
    ELSE IF page.idx % 3 = 2
    THEN << Zone(<<"1", "2">>, Pos(0, 240, 300, 120)), Zone(<<"5">>, Pos(30, 60, 120, 90)) >>
    ELSE <<>>

\* a zone item without position preview
NoPreview == [rendered |-> FALSE]

\* (a / b) * 100 for b > 0, as a fraction that is not reduced
Percent(a, b) == <<a * 100, b>>

\* the position preview without the check of the percentages
ZonePreviewUnchecked(page, zone) ==
    IF zone.pos = NoObj THEN NoPreview
    ELSE IF Geometry(page).h < 100 \/ Geometry(page).w < 100 THEN NoPreview
    ELSE [rendered |-> TRUE,
          top |-> Percent(zone.pos.y, Geometry(page).h),
          left |-> Percent(zone.pos.x, Geometry(page).w),
          width |-> Percent(zone.pos.w, Geometry(page).w),
          height |-> Percent(zone.pos.h, Geometry(page).h)]

\* span.actualPreview of a zone on its page: top, left, width and height in
\* percent of page.px.xywh, or none when the zone has no position, the page is
\* smaller than 100 pixels or a percentage is outside 0..100
ZonePreview(page, zone) ==
    IF zone.pos = NoObj THEN NoPreview
    ELSE IF Geometry(page).h < 100 \/ Geometry(page).w < 100 THEN NoPreview
    ELSE LET zoneTop == Percent(zone.pos.y, Geometry(page).h)
             zoneLeft == Percent(zone.pos.x, Geometry(page).w)
             zoneWidth == Percent(zone.pos.w, Geometry(page).w)
             zoneHeight == Percent(zone.pos.h, Geometry(page).h)
         IN  IF \E v \in {zoneTop, zoneLeft, zoneWidth, zoneHeight} :
                    ~RLe(v, RInt(100)) \/ ~RLe(RInt(0), v)
             THEN NoPreview
             ELSE [rendered |-> TRUE, top |-> zoneTop, left |-> zoneLeft,
                   width |-> zoneWidth, height |-> zoneHeight]

\* parseInt(label) || 0
SortKey(zone) ==
    IF ParseInt(zone.label) = NaN THEN 0 ELSE ParseInt(zone.label)[2]

\* [...page.writingZones].sort((a, b) => aNum - bNum): stable, ascending
RECURSIVE SortZones(_)
SortZones(zones) ==
    IF zones = <<>> THEN <<>>
    ELSE LET rest == SortZones(SubSeq(zones, 1, Len(zones) - 1))
             z == zones[Len(zones)]
             k == Cardinality({ i \in 1..Len(rest) : SortKey(rest[i]) <= SortKey(z) })
         IN  SubSeq(rest, 1, k) \o <<z>> \o SubSeq(rest, k + 1, Len(rest))

RECURSIVE Concat(_)
Concat(seqs) == IF seqs = <<>> THEN <<>> ELSE Head(seqs) \o Concat(Tail(seqs))

\* the li.zone-item elements of page pageIndex, in the order they are appended;
\* pos is what the position preview of the item is computed from
PageZoneItems(pages, pageIndex, label, page) ==
    IF pageIndex \notin 1..Len(pages) THEN <<>>
    ELSE LET zones == SortZones(WritingZones(pages[pageIndex]))
         IN  [k \in 1..Len(zones) |->
                 [page |-> pageIndex, label |-> zones[k].label,
                  active |-> label = zones[k].label /\ page = Num(pageIndex),
                  pos |-> zones[k].pos]]

\* the rendered zone list: pages is this.currentPages, spread the argument of
\* setupWritingZones and manifestId the id its click handlers close over
ZonesList(pages, shown, spread, manifestId, label, page) ==
    [shown |-> shown, activeLabel |-> label, activePage |-> page,
     pagePairs |-> PagePairs(shown), spread |-> spread, manifestId |-> manifestId,
     items |-> LET flat == Concat(PagePairs(shown))
               IN  Concat([k \in 1..Len(flat) |->
                              PageZoneItems(pages, flat[k], label, page)])]

\* the zone list of a freshly rendered viewer view
EmptyZonesList == ZonesList(<<>>, <<>>, <<>>, Null, Undefined, Undefined)

\* setupZoneKeyboardNavigation(): remove the stored handler, store and add a new one
setupZoneKeyboardNavigation(s) ==
    [s EXCEPT !.zoneKeyboardHandler =
         [set |-> TRUE,
          listeners |-> (IF @.set THEN @.listeners - 1 ELSE @.listeners) + 1]]

\* setupWritingZones(currentPageIndices): which pages' zones are listed and
\* which zone is marked active
setupWritingZones(s, idxs) ==
    IF s.zonesList = NoObj \/ ~TruthyObj(s.currentPages) \/ ~TruthyObj(s.currentEdition)
    THEN s
    ELSE LET total == Len(s.currentPages.items)
             pagesToShow == IF s.restrictToCurrentPage = "true" THEN idxs
                            ELSE [i \in 1..total |-> i]
         IN  setupZoneKeyboardNavigation(
                 [s EXCEPT !.zonesList =
                      ZonesList(s.currentPages.items, pagesToShow, idxs,
                                getCurrentManifestId(s),
                                s.currentZoneLabel, s.currentZonePageIndex)])

\* updateActiveZone(zoneLabel, zonePageIndex)
updateActiveZone(s, zoneLabel, zonePageIndex) ==
    LET s1 == [s EXCEPT !.currentZoneLabel = zoneLabel,
                        !.currentZonePageIndex = zonePageIndex]
        idxs == IF TruthyObj(s1.currentPageIndices) THEN s1.currentPageIndices.items
                ELSE <<>>
    IN  IF Len(idxs) > 0 THEN setupWritingZones(s1, idxs) ELSE s1

\* no keydown listener registered, this.zoneKeyboardHandler undefined
NoKeyboardHandler == [set |-> FALSE, listeners |-> 0]

\* a tiled image without clip
NoClip == [clip |-> FALSE]

\* calculateClipRect(page, hideCenter): null, or the rectangle in image pixels
calculateClipRect(page, hideCenter) ==
    IF ~hideCenter THEN NoClip
    ELSE IF Geometry(page).verso THEN NoClip
    ELSE [clip |-> TRUE, x |-> Geometry(page).x, y |-> 0,
          width |-> Geometry(page).pxWidth - Geometry(page).x,
          height |-> Geometry(page).pxHeight]

\* one click listener of #toggle-margins: flip this.clipMargins and set or
\* remove the clip of world.getItemAt(index) for every displayed page
toggleMargins(s) ==
    LET hideCenter == s.clipMargins /= "true"
        s1 == [s EXCEPT !.clipMargins = IF hideCenter THEN "true" ELSE "false"]
    IN  IF ~TruthyObj(s1.viewer) THEN s1
        ELSE LET pages == s1.viewer.bounds.pages
             IN  [s1 EXCEPT !.viewer.clips =
                      [i \in 1..Len(@) |->
                          IF i <= Len(pages) THEN calculateClipRect(pages[i], hideCenter)
                          ELSE @[i]]]

\* every click listener of #toggle-margins, in turn
RECURSIVE toggleMarginsClick(_, _)
toggleMarginsClick(s, listeners) ==
    IF listeners = 0 THEN s ELSE toggleMarginsClick(toggleMargins(s), listeners - 1)

\* the addTiledImage requests for a spread: one per page, each with what its
\* success callback closes over (index === pages.length - 1, pages.length,
\* worldBounds)
ImageRequests(pages, worldBounds) ==
    [i \in 1..Len(pages) |->
        [page |-> pages[i], last |-> i = Len(pages), count |-> Len(pages),
         bounds |-> worldBounds]]

\* pages.forEach(... addTiledImage ...) with the new requests served before
\* the requests already outstanding
AddTiledImagesFirst(queue, pages, worldBounds) ==
    ImageRequests(pages, worldBounds) \o queue

\* pages.forEach(... this.viewer.addTiledImage({...}) ...): the requests join
\* the requests of the viewer that are still outstanding
AddTiledImages(queue, pages, worldBounds) ==
    queue \o ImageRequests(pages, worldBounds)

\* viewport.fitBounds calls made by the success callback of request r
FitCalls(r) == IF r.last THEN 2 ELSE 0

\* switchPages(pageSpec, zoneLabel, zonePageIndex)
switchPages(s, pageSpec, zoneLabel, zonePageIndex) ==
    IF ~TruthyObj(s.viewer) \/ ~TruthyObj(s.currentPages) THEN s
    ELSE LET pages == parsePageSpec(s, pageSpec) IN
         IF Len(pages) = 0 THEN s
         ELSE LET idxs == PageIndices(s, pages)
                  s1 == [s EXCEPT !.viewer = [@ EXCEPT !.world = <<>>,
                                                       !.clips = <<>>,
                                                       !.queue = AddTiledImages(@, pages, BoundsBy("switchPages", pages)),
                                                       !.fits = 0,
                                                       !.bounds = BoundsBy("switchPages", pages)],
                                  !.currentPageIndices = Arr(idxs)]
                  s2 == setupWritingZones(
                            setupPagePreviews(
                                setupPageNavigation(s1, idxs, Len(s.currentPages.items)),
                                idxs),
                            idxs)
              IN  IF TruthyStr(zoneLabel) /\ TruthyNum(zonePageIndex)
                  THEN updateActiveZone(s2, zoneLabel, zonePageIndex)
                  ELSE s2

\* the checked state that the viewer template gives the checkbox
\* #restrict-to-current-page
CheckboxDefaults == {"true", "false"}

\* setupFilters(): an undefined restrictToCurrentPage takes the checked
\* state of the checkbox, a defined one is written to the checkbox
setupFilters(s, checked) ==
    IF s.restrictToCurrentPage /= "undefined" THEN s
    ELSE [s EXCEPT !.restrictToCurrentPage = checked]

\* setupSidePanel(): listeners of the panel, then setupFilters()
setupSidePanel(s, checked) ==
    setupFilters(s, checked)

\* createViewer() without the call of cleanupViewer()
createViewerNoCleanup(s, throws, checked) ==
    IF s.content.view /= "viewer" THEN s
    ELSE LET pages == IF TruthyObj(s.pagesToLoad) THEN s.pagesToLoad.items ELSE <<>>
         IN  IF Len(pages) = 0 THEN s
             ELSE LET idxs == PageIndices(s, pages)
                      s2 == [s EXCEPT
                               !.viewer = [id |-> s.viewersCreated + 1, world |-> <<>>,
                                           clips |-> <<>>,
                                           queue |-> AddTiledImages(<<>>, pages, BoundsBy("createViewer", pages)),
                                           fits |-> 0,
                                           bounds |-> BoundsBy("createViewer", pages)],
                               !.viewersCreated = @ + 1,
                               !.currentPageIndices = Arr(idxs)]
                  IN  setupWritingZones(
                          setupSidePanel(
                              setupZoomControls(
                                  setupPagePreviews(
                                      setupPageNavigation(s2, idxs,
                                                          Len(s.currentPages.items)),
                                      idxs)),
                              checked),
                          idxs)

\* createViewer()
createViewer(s, throws, checked) ==
    IF s.content.view /= "viewer" THEN s
    ELSE LET s1 == cleanupViewer(s, throws)
             pages == IF TruthyObj(s1.pagesToLoad) THEN s1.pagesToLoad.items ELSE <<>>
         IN  IF s1.uncaught THEN s1
             ELSE IF Len(pages) = 0 THEN s1
             ELSE LET idxs == PageIndices(s1, pages)
                      s2 == [s1 EXCEPT
                               !.viewer = [id |-> s1.viewersCreated + 1, world |-> <<>>,
                                           clips |-> <<>>,
                                           queue |-> AddTiledImages(<<>>, pages, BoundsBy("createViewer", pages)),
                                           fits |-> 0,
                                           bounds |-> BoundsBy("createViewer", pages)],
                               !.viewersCreated = @ + 1,
                               !.currentPageIndices = Arr(idxs)]
                  IN  setupWritingZones(
                          setupSidePanel(
                              setupZoomControls(
                                  setupPagePreviews(
                                      setupPageNavigation(s2, idxs,
                                                          Len(s1.currentPages.items)),
                                      idxs)),
                              checked),
                          idxs)

\* initOpenSeadragon(pages)
initOpenSeadragon(s, pages, throws, checked) ==
    LET s1 == [s EXCEPT !.pagesToLoad = Arr(pages)] IN
    IF s1.osdDefined THEN createViewer(s1, throws, checked)
    ELSE [s1 EXCEPT !.scriptsPending = @ + 1]

\* renderViewer(pages)
renderViewer(s, pages) ==
    [s EXCEPT !.content = ViewerView,
              !.zonesList = EmptyZonesList,
              !.pageNav = FreshPageNav,
              !.timers = Append(@, pages)]

\* loadManifestAndRender up to its first await
loadManifestAndRender(s, nav, manifestId, pageSpec, zoneLabel, zonePageIndex) ==
    LET editionUrl == LookupEditionUrl(manifestId) IN
    IF editionUrl = "" THEN
        renderNotFound(s, <<"/", "f", "a", "c", "s", "/">> \o manifestId \o <<"/">>)
    ELSE [s EXCEPT !.content = LoadingView,
                   !.zonesList = NoObj,
                   !.pageNav = NoObj,
                   !.fetches = @ \cup {[nav |-> nav, url |-> editionUrl,
                                        manifestId |-> manifestId, pageSpec |-> pageSpec,
                                        zoneLabel |-> zoneLabel,
                                        zonePageIndex |-> zonePageIndex]},
                   !.fetchCount = [@ EXCEPT ![manifestId] = @ + 1]]


\* editionData.find(item => Array.isArray(item) && item.length > 0):
\* the first non-empty array of the body, NoObj (undefined) when there is none
RECURSIVE FindDataArray(_)
FindDataArray(body) ==
    IF body = <<>> THEN NoObj
    ELSE IF Head(body).isArray /\ Len(Head(body).elems) > 0 THEN Head(body)
    ELSE FindDataArray(Tail(body))

\* the catch block with templates.error called without its backLink argument
LoadErrorDefaultLink(s, msg) ==
    [s EXCEPT !.content = ErrorView("Error Loading Edition Data", msg, <<>>, <<"/">>),
              !.zonesList = NoObj, !.pageNav = NoObj]

\* the catch block of loadManifestAndRender
LoadError(s, msg) ==
    [s EXCEPT !.content = ErrorView("Error Loading Edition Data", msg, <<>>,
                                    basePath \o <<"/">>),
              !.zonesList = NoObj, !.pageNav = NoObj]

\* the assignments of loadManifestAndRender after a well-formed response,
\* renderViewer and the timer of 100 ms for setupPagePreviews
ApplyEdition(s, f, sourceData) ==
    LET s1 == [s EXCEPT !.currentEdition = sourceData,
                        !.currentPages = sourceData.pages,
                        !.currentManifestId = f.manifestId,
                        !.currentPageSpec = f.pageSpec,
                        !.currentZoneLabel = f.zoneLabel,
                        !.currentZonePageIndex = f.zonePageIndex]
    IN  [renderViewer(s1, parsePageSpec(s1, f.pageSpec)) EXCEPT !.previewTimers = @ + 1]

\* loadManifestAndRender from the resolution of its fetch to its end
resumeLoad(s, f, resp) ==
    LET s0 == [s EXCEPT !.fetches = @ \ {f}] IN
    IF ~resp.ok THEN
        LoadError(s0, "Could not load edition data: Failed to load edition data: 404")
    ELSE IF ~resp.json THEN
        LoadError(s0, "Could not load edition data: Unexpected token")
    ELSE LET dataArray == FindDataArray(resp.body) IN
         IF ~TruthyObj(dataArray) THEN
             LoadError(s0, "Could not load edition data: Invalid edition data structure")
         ELSE LET sourceData == dataArray.elems[1] IN
              IF ~sourceData.hasSource THEN
                  LoadError([s0 EXCEPT !.currentEdition = sourceData],
                            "Could not load edition data: Cannot read properties of undefined")
              ELSE ApplyEdition(s0, f, sourceData)

\* this.applyFiltersFromUrl(filterSpec)
applyFiltersFromUrl(s, filterSpec) ==
    LET filters == Split(filterSpec, ",")
        allPages == <<"a", "l", "l", "P", "a", "g", "e", "s">>
    IN  [s EXCEPT !.restrictToCurrentPage =
             IF \E i \in 1..Len(filters) : filters[i] = allPages THEN "false" ELSE "true"]

\* the loop of route over segments with a break after the first segment that
\* starts with either prefix
RECURSIVE LastMarkedBreak(_, _, _, _, _)
LastMarkedBreak(segments, i, isFilter, isZone, acc) ==
    IF i > Len(segments) THEN acc
    ELSE LET seg == segments[i]
             filterHit == StartsWith(seg, <<"f", "i", "l", "t", "e", "r", ":">>)
             zoneHit == ~filterHit /\ StartsWith(seg, <<"w", "z">>)
         IN  IF filterHit THEN (IF isFilter THEN Substring(seg, 7) ELSE acc)
             ELSE IF zoneHit THEN (IF isZone THEN Substring(seg, 2) ELSE acc)
             ELSE LastMarkedBreak(segments, i + 1, isFilter, isZone, acc)

\* the last segment from position i on that starts with the prefix, with the
\* prefix removed; Null when there is none (the loop of route over segments)
RECURSIVE LastMarked(_, _, _, _, _)
LastMarked(segments, i, isFilter, isZone, acc) ==
    IF i > Len(segments) THEN acc
    ELSE LET seg == segments[i]
             filterHit == StartsWith(seg, <<"f", "i", "l", "t", "e", "r", ":">>)
             zoneHit == ~filterHit /\ StartsWith(seg, <<"w", "z">>)
         IN  IF isFilter /\ filterHit
                 THEN LastMarked(segments, i + 1, isFilter, isZone, Substring(seg, 7))
             ELSE IF isZone /\ zoneHit
                 THEN LastMarked(segments, i + 1, isFilter, isZone, Substring(seg, 2))
             ELSE LastMarked(segments, i + 1, isFilter, isZone, acc)

\* what route() extracts from a path of two or more segments
ParseSegments(segments) ==
    LET zoneSpec == LastMarked(segments, 3, FALSE, TRUE, Null)
        parts == IF TruthyStr(zoneSpec) THEN Split(zoneSpec, ".") ELSE <<>>
    IN  [manifestId |-> segments[1],
         pageSpec |-> IF StartsWith(segments[2], <<"p">>) THEN Substring(segments[2], 1)
                      ELSE Null,
         filterSpec |-> LastMarked(segments, 3, TRUE, FALSE, Null),
         zoneLabel |-> IF ~TruthyStr(zoneSpec) THEN Null
                       ELSE IF Len(parts) >= 2 THEN parts[2] ELSE Undefined,
         zonePageIndex |-> IF ~TruthyStr(zoneSpec) THEN Null ELSE ParseInt(parts[1])]

\* route() for a path of exactly one segment
routeOne(s, nav, manifestId, throws) ==
    LET s1 == IF TruthyObj(s.viewer) /\ s.currentManifestId /= manifestId
              THEN cleanupViewer(s, throws) ELSE s
    IN  IF s1.uncaught THEN s1
        ELSE loadManifestAndRender(s1, nav, manifestId, Null, Null, Null)

\* route() for a path of two or more segments
routeMany(s, nav, segments, throws) ==
    LET p == ParseSegments(segments)
        s1 == IF TruthyStr(p.filterSpec) THEN applyFiltersFromUrl(s, p.filterSpec)
              ELSE [s EXCEPT !.restrictToCurrentPage = "true"]
    IN  IF s1.currentManifestId = p.manifestId /\ TruthyObj(s1.viewer) THEN
            IF s1.currentPageSpec = p.pageSpec THEN
                LET s2 == IF TruthyStr(p.zoneLabel)
                          THEN updateActiveZone(s1, p.zoneLabel, p.zonePageIndex)
                          ELSE s1
                IN  IF TruthyObj(s2.currentPageIndices)
                       /\ Len(s2.currentPageIndices.items) > 0
                    THEN setupWritingZones(s2, s2.currentPageIndices.items)
                    ELSE s2
            ELSE switchPages([s1 EXCEPT !.currentPageSpec = p.pageSpec,
                                        !.currentZoneLabel = p.zoneLabel,
                                        !.currentZonePageIndex = p.zonePageIndex],
                             p.pageSpec, p.zoneLabel, p.zonePageIndex)
        ELSE LET s2 == IF TruthyObj(s1.viewer) /\ s1.currentManifestId /= p.manifestId
                       THEN cleanupViewer(s1, throws) ELSE s1
             IN  IF s2.uncaught THEN s2
                 ELSE loadManifestAndRender(s2, nav, p.manifestId, p.pageSpec,
                                            p.zoneLabel, p.zonePageIndex)

\* the relative path without the leading slash being ensured
NormalisePathNoSlash(path) ==
    IF StartsWith(path, basePath)
    THEN (IF Substring(path, Len(basePath)) = <<>> THEN <<"/">>
          ELSE Substring(path, Len(basePath)))
    ELSE path

\* navigate(path) up to its call of route: the relative path it routes
NormalisePath(path) ==
    LET rel == IF StartsWith(path, basePath)
               THEN (IF Substring(path, Len(basePath)) = <<>> THEN <<"/">>
                     ELSE Substring(path, Len(basePath)))
               ELSE path
    IN  IF StartsWith(rel, <<"/">>) THEN rel ELSE <<"/">> \o rel

\* route(path) with the empty path answered by the 404 view instead of the
\* redirect
routeNoRedirect(s, nav, path, throws) ==
    LET segments == Segments(path) IN
    IF Len(segments) = 0 THEN renderNotFound(s, path)
    ELSE IF Len(segments) = 1 THEN routeOne(s, nav, segments[1], throws)
    ELSE routeMany(s, nav, segments, throws)

\* route(path); an empty path redirects through navigate('/NK/'), which pushes
\* the target URL and routes its single segment
route(s, nav, path, throws) ==
    LET segments == Segments(path) IN
    IF Len(segments) = 0 THEN
        LET target == NormalisePath(<<"/", "N", "K", "/">>) IN
        routeOne([s EXCEPT !.pushed = Append(@, basePath \o target),
                           !.location = basePath \o target],
                 nav, Segments(target)[1], throws)
    ELSE IF Len(segments) = 1 THEN routeOne(s, nav, segments[1], throws)
    ELSE routeMany(s, nav, segments, throws)

\* navigate(path): history.pushState of the full URL, then route(path)
navigate(s, nav, path, throws) ==
    route([s EXCEPT !.pushed = Append(@, basePath \o NormalisePath(path)),
                    !.location = basePath \o NormalisePath(path)],
          nav, NormalisePath(path), throws)


\* ------------------------------------------------------------------------
\* Observation of a navigation: what route() makes of a path
\* ------------------------------------------------------------------------

\* manifest id and page spec that route() passes on for a path
NavIntent(path) ==
    LET segments == Segments(path) IN
    IF Len(segments) = 0 THEN [manifestId |-> sNK, pageSpec |-> Null]
    ELSE IF Len(segments) = 1 THEN [manifestId |-> segments[1], pageSpec |-> Null]
    ELSE [manifestId |-> ParseSegments(segments).manifestId,
          pageSpec |-> ParseSegments(segments).pageSpec]

\* the kind of response a fetch got, told from the response alone
ResponseClass(resp) ==
    IF ~resp.ok THEN "status"
    ELSE IF ~resp.json THEN "notjson"
    ELSE IF ~\E i \in 1..Len(resp.body) :
                 resp.body[i].isArray /\ Len(resp.body[i].elems) > 0 THEN "noarray"
    ELSE LET k == CHOOSE i \in 1..Len(resp.body) :
                      /\ resp.body[i].isArray /\ Len(resp.body[i].elems) > 0
                      /\ \A j \in 1..(i - 1) :
                             ~(resp.body[j].isArray /\ Len(resp.body[j].elems) > 0)
         IN  IF resp.body[k].elems[1].hasSource THEN "ok" ELSE "nosource"

\* asynchronous work of the router that has not run yet
PendingWork ==
    fetches /= {} \/ timers /= <<>> \/ previewTimers > 0 \/ scriptsPending > 0

NoEvent == [kind |-> "init", nav |-> 0, path |-> <<>>, result |-> ""]

NoNav == [nav |-> 0, manifestId |-> Undefined, pageSpec |-> Undefined,
          full |-> FALSE, fetched |-> FALSE, result |-> "none"]

\* ------------------------------------------------------------------------
\* Initial state: the router object entering init(), nothing rendered yet.
\* OpenSeadragon may or may not have been loaded by the hosting page.
\* ------------------------------------------------------------------------

Init ==
    /\ started = FALSE
    /\ viewer = NoObj
    /\ currentManifestId = Undefined
    /\ currentPageSpec = Undefined
    /\ currentZoneLabel = Undefined
    /\ currentZonePageIndex = Undefined
    /\ currentEdition = NoObj
    /\ currentPages = NoObj
    /\ restrictToCurrentPage = "undefined"
    /\ pagesToLoad = NoObj
    /\ currentPageIndices = NoObj
    /\ content = BlankView
    /\ zonesList = NoObj
    /\ pageNav = NoObj
    /\ location = <<>>
    /\ fetches = {}
    /\ timers = <<>>
    /\ previewTimers = 0
    /\ scriptsPending = 0
    /\ osdDefined \in BOOLEAN
    /\ fetchCount = [m \in ManifestIds |-> 0]
    /\ destroyCalls = 0
    /\ viewersCreated = 0
    /\ uncaught = FALSE
    /\ cleanup = NoCleanup
    /\ pushed = <<>>
    /\ clipMargins = "undefined"
    /\ zoneKeyboardHandler = NoKeyboardHandler
    /\ navCount = 0
    /\ ev = NoEvent
    /\ lastNav = NoNav
    /\ raced = FALSE
    /\ failedNavs = FALSE
    /\ loaded = {}

\* ------------------------------------------------------------------------
\* Actions
\* ------------------------------------------------------------------------

\* bookkeeping shared by the three user events that end in route(path); s1 is
\* the state the handler leaves
Routed(kind, path, s1) ==
    /\ Becomes(s1)
    /\ navCount' = navCount + 1
    /\ ev' = [kind |-> kind, nav |-> navCount + 1, path |-> path, result |-> ""]
    /\ lastNav' = [nav |-> navCount + 1,
                   manifestId |-> NavIntent(path).manifestId,
                   pageSpec |-> NavIntent(path).pageSpec,
                   full |-> ~(TruthyObj(viewer)
                              /\ currentManifestId = NavIntent(path).manifestId),
                   fetched |-> s1.fetches /= fetches,
                   result |-> IF s1.fetches /= fetches THEN "pending"
                              ELSE IF s1.content.view = "error" /\ s1.content /= content
                                  THEN "fail"
                              ELSE "none"]
    /\ raced' = (raced \/ PendingWork)
    /\ failedNavs' = (failedNavs \/ (s1.content.view = "error" /\ s1.content /= content))
    /\ UNCHANGED loaded

\* constructor -> init() for the location the page was opened at: the _path
\* query parameter when there is one (Null when absent; replaceState rewrites
\* the URL without adding a history entry), the location's path otherwise
Start(limit, loc, pathParam, throws) ==
    LET path == IF TruthyStr(pathParam) THEN pathParam ELSE getCurrentPath(loc) IN
    /\ ~started
    /\ navCount < limit
    /\ started' = TRUE
    /\ Routed("start", path,
              route([This EXCEPT !.location = IF TruthyStr(pathParam)
                                              THEN basePath \o pathParam ELSE loc],
                    navCount + 1, path, throws))

\* click on an in-app link, or a control calling navigate(href)
Navigate(limit, href, throws) ==
    /\ started
    /\ navCount < limit
    /\ UNCHANGED started
    /\ Routed("navigate", NormalisePath(href),
              navigate(This, navCount + 1, href, throws))

\* popstate listener: route(getCurrentPath()) after back / forward
Popstate(limit, loc, throws) ==
    /\ started
    /\ navCount < limit
    /\ UNCHANGED started
    /\ Routed("popstate", getCurrentPath(loc),
              route([This EXCEPT !.location = loc], navCount + 1,
                    getCurrentPath(loc), throws))

\* click on #prev-page: the onclick handler set by setupPageNavigation
ClickPrev(limit, throws) ==
    /\ started
    /\ navCount < limit
    /\ TruthyObj(pageNav)
    /\ ~pageNav.prevDisabled
    /\ TruthyStr(pageNav.prevPath)
    /\ UNCHANGED started
    /\ Routed("navigate", NormalisePath(pageNav.prevPath),
              navigate(This, navCount + 1, pageNav.prevPath, throws))

\* click on #next-page: the onclick handler set by setupPageNavigation
ClickNext(limit, throws) ==
    /\ started
    /\ navCount < limit
    /\ TruthyObj(pageNav)
    /\ ~pageNav.nextDisabled
    /\ TruthyStr(pageNav.nextPath)
    /\ UNCHANGED started
    /\ Routed("navigate", NormalisePath(pageNav.nextPath),
              navigate(This, navCount + 1, pageNav.nextPath, throws))

\* the fetch of a suspended loadManifestAndRender resolves with resp and the
\* function runs to its end
FetchComplete(f, resp) ==
    LET s1 == resumeLoad(This, f, resp)
        ok == s1.content.view = "viewer"
    IN  /\ f \in fetches
        /\ Becomes(s1)
        /\ ev' = [kind |-> "fetchDone", nav |-> f.nav, path |-> <<>>,
                  result |-> ResponseClass(resp)]
        /\ lastNav' = IF f.nav = lastNav.nav
                      THEN [lastNav EXCEPT !.result = IF ok THEN "ok" ELSE "fail"]
                      ELSE lastNav
        /\ failedNavs' = (failedNavs \/ ~ok)
        /\ loaded' = IF ok THEN loaded \cup {f.manifestId} ELSE loaded
        /\ UNCHANGED <<started, navCount, raced>>

\* the zero-delay timer set by renderViewer fires: initOpenSeadragon(pages)
TimerFires(throws, checked) ==
    /\ timers /= <<>>
    /\ Becomes(initOpenSeadragon([This EXCEPT !.timers = Tail(@)], Head(timers), throws,
                                 checked))
    /\ ev' = [kind |-> "timer", nav |-> 0, path |-> <<>>, result |-> ""]
    /\ UNCHANGED <<started, navCount, lastNav, raced, failedNavs, loaded>>

\* the timer of 100 ms set by loadManifestAndRender fires, after the
\* zero-delay timer set before it: setupPagePreviews(currentPageIndices)
PreviewTimerFires ==
    /\ previewTimers > Len(timers)
    /\ Becomes(setupPagePreviews([This EXCEPT !.previewTimers = @ - 1], <<>>))
    /\ ev' = [kind |-> "previewTimer", nav |-> 0, path |-> <<>>, result |-> ""]
    /\ UNCHANGED <<started, navCount, lastNav, raced, failedNavs, loaded>>

\* onload of the OpenSeadragon script element: createViewer()
ScriptLoaded(throws, checked) ==
    /\ scriptsPending > 0
    /\ Becomes(createViewer([This EXCEPT !.scriptsPending = @ - 1, !.osdDefined = TRUE],
                            throws, checked))
    /\ ev' = [kind |-> "script", nav |-> 0, path |-> <<>>, result |-> ""]
    /\ UNCHANGED <<started, navCount, lastNav, raced, failedNavs, loaded>>

\* the viewer finishes loading the oldest requested image and adds it to its
\* world
ImageLoaded ==
    /\ TruthyObj(viewer)
    /\ viewer.queue /= <<>>
    /\ Becomes([This EXCEPT !.viewer = [@ EXCEPT !.world = Append(@, Head(viewer.queue).page),
                                                 !.clips = Append(@, NoClip),
                                                 !.queue = Tail(@),
                                                 !.fits = @ + FitCalls(Head(viewer.queue))]])
    /\ ev' = [kind |-> "imageLoaded", nav |-> 0, path |-> <<>>, result |-> ""]
    /\ UNCHANGED <<started, navCount, lastNav, raced, failedNavs, loaded>>

\* the viewer fails to load the oldest requested image (error callback: log only)
ImageFailed ==
    /\ TruthyObj(viewer)
    /\ viewer.queue /= <<>>
    /\ Becomes([This EXCEPT !.viewer = [@ EXCEPT !.queue = Tail(@)]])
    /\ ev' = [kind |-> "imageFailed", nav |-> 0, path |-> <<>>, result |-> ""]
    /\ UNCHANGED <<started, navCount, lastNav, raced, failedNavs, loaded>>

\* targetPageSpec of the click handler of a zone of page pageIndex, listed
\* while the pages spread are shown in an edition of total pages
ZoneClickPageSpec(spread, pageIndex, total) ==
    IF \E i \in 1..Len(spread) : spread[i] = pageIndex
    THEN (IF Len(spread) = 2 THEN NatToStr(spread[1]) \o <<"-">> \o NatToStr(spread[2])
          ELSE NatToStr(pageIndex))
    ELSE IF pageIndex = 1 THEN <<"1">>
    ELSE LET pairStart == IF pageIndex % 2 = 0 THEN pageIndex ELSE pageIndex - 1
         IN  IF pairStart + 1 <= total
             THEN NatToStr(pairStart) \o <<"-">> \o NatToStr(pairStart + 1)
             ELSE NatToStr(pairStart)

\* `wz${pageIndex}.${label}/` and `filter:${filterSpec}/`
ZoneSegment(pageIndex, label) ==
    <<"w", "z">> \o NatToStr(pageIndex) \o <<".">> \o label \o <<"/">>

FilterSegment(filterSpec) ==
    IF TruthyStr(filterSpec)
    THEN <<"f", "i", "l", "t", "e", "r", ":">> \o filterSpec \o <<"/">>
    ELSE <<>>

\* zoneItems.findIndex(item => item.classList.contains('active'))
RECURSIVE FindActive(_, _)
FindActive(items, i) ==
    IF i >= Len(items) THEN 0 - 1
    ELSE IF items[i + 1].active THEN i
    ELSE FindActive(items, i + 1)

\* nextIndex / prevIndex of the zone keyboard handler
KeyTargetIndex(key, activeIndex, length) ==
    IF key = "ArrowDown" THEN (activeIndex + 1) % length
    ELSE (IF activeIndex <= 0 THEN length - 1 ELSE activeIndex - 1)

\* the path the click listener of a rendered zone item navigates to
ZoneItemPath(s, item) ==
    basePath \o <<"/">> \o s.zonesList.manifestId \o <<"/", "p">>
        \o ZoneClickPageSpec(s.zonesList.spread, item.page, Len(s.currentPages.items))
        \o <<"/">> \o FilterSegment(getFilterSpec(s)) \o ZoneSegment(item.page, item.label)

\* keydown of ArrowDown or ArrowUp outside an input, with zone items rendered:
\* the zone keyboard handler clicks an item, whose listener navigates
KeyDown(limit, key, throws) ==
    /\ started
    /\ navCount < limit
    /\ zoneKeyboardHandler.listeners > 0
    /\ TruthyObj(zonesList)
    /\ Len(zonesList.items) > 0
    /\ UNCHANGED started
    /\ LET index == KeyTargetIndex(key, FindActive(zonesList.items, 0),
                                    Len(zonesList.items))
           path == ZoneItemPath(This, zonesList.items[index + 1])
       IN  Routed(key, NormalisePath(path), navigate(This, navCount + 1, path, throws))

\* click on a rendered zone item: its listener navigates to the path of the
\* zone
ClickZone(limit, throws) ==
    /\ started
    /\ navCount < limit
    /\ TruthyObj(zonesList)
    /\ UNCHANGED started
    /\ \E i \in 1..Len(zonesList.items) :
           LET path == ZoneItemPath(This, zonesList.items[i])
           IN  Routed("zone", NormalisePath(path),
                      navigate(This, navCount + 1, path, throws))

\* click on the k-th thumbnail group: the listener navigates to the page
\* spec in dataset.pages under the manifest id it closes over
ClickThumbnail(limit, throws) ==
    /\ started
    /\ navCount < limit
    /\ TruthyObj(pageNav)
    /\ UNCHANGED started
    /\ \E k \in 1..Len(pageNav.thumbnails) :
           LET path == PageNavPath(pageNav.thumbManifestId, pageNav.thumbnails[k].pages, Null)
           IN  Routed("thumbnail", NormalisePath(path),
                      navigate(This, navCount + 1, path, throws))

\* click on #toggle-margins
ToggleMargins ==
    /\ started
    /\ TruthyObj(pageNav)
    /\ pageNav.toggleListeners > 0
    /\ Becomes(toggleMarginsClick(This, pageNav.toggleListeners))
    /\ ev' = [kind |-> "toggleMargins", nav |-> 0, path |-> <<>>, result |-> ""]
    /\ UNCHANGED <<started, navCount, lastNav, raced, failedNavs, loaded>>

\* the steps of a session of at most limit navigations over the locations
\* locs and the link targets hrefs
NextWith(limit, locs, hrefs) ==
    \/ \E loc \in locs, pathParam \in PathParams, throws \in BOOLEAN :
           Start(limit, loc, pathParam, throws)
    \/ \E href \in hrefs, throws \in BOOLEAN : Navigate(limit, href, throws)
    \/ \E loc \in locs, throws \in BOOLEAN : Popstate(limit, loc, throws)
    \/ \E throws \in BOOLEAN : ClickPrev(limit, throws)
    \/ \E throws \in BOOLEAN : ClickNext(limit, throws)
    \/ \E f \in fetches : \E resp \in ResponsesFor(f) : FetchComplete(f, resp)
    \/ \E throws \in BOOLEAN, checked \in CheckboxDefaults : TimerFires(throws, checked)
    \/ \E throws \in BOOLEAN, checked \in CheckboxDefaults : ScriptLoaded(throws, checked)
    \/ PreviewTimerFires
    \/ ImageLoaded
    \/ ImageFailed

\* the steps of a session of at most limit navigations over Paths
NextOver(limit) == NextWith(limit, Locations, Hrefs)

Next == NextOver(MaxNavs)

Spec == Init /\ [][Next]_vars

\* locations of the base path, of an edition, of a page of it and of an
\* unregistered manifest
LongLocations ==
    { basePath \o MkPath(<<>>), basePath \o MkPath(<<sNK>>),
      basePath \o MkPath(<<sNK, segP2>>), basePath \o MkPath(<<sXX>>) }

\* href values of the longer sessions: absolute or relative
LongHrefs == LongLocations \cup { MkPath(<<>>), MkPath(<<sNK, segP2>>) }

NextLong == NextWith(MaxNavsLong, LongLocations, LongHrefs)

\* sessions of up to MaxNavsLong navigations
SpecLong == Init /\ [][NextLong]_vars

NextZones == NextWith(MaxNavs, ZoneLocations, ZoneLocations)

\* locations of a single recto, a single verso and a spread
ClipLocations ==
    { basePath \o MkPath(<<sNK>>), basePath \o MkPath(<<sNK, segP2>>),
      basePath \o MkPath(<<sNK, segP2to3>>) }

NextClip ==
    \/ NextWith(MaxNavs, ClipLocations, ClipLocations)
    \/ ToggleMargins

\* sessions with clicks on the margin toggle
SpecClip == Init /\ [][NextClip]_vars

segFilterXAll ==
    <<"f", "i", "l", "t", "e", "r", ":", "x", ",", "a", "l", "l", "P", "a", "g", "e", "s">>

segFilterX == <<"f", "i", "l", "t", "e", "r", ":", "x">>

\* locations with a page segment: without filter, with the allPages option
\* alone and among others, with a filter without it, and of a page the
\* edition does not have
FilterLocations ==
    { basePath \o MkPath(<<sNK, segP2>>),
      basePath \o MkPath(<<sNK, segP2, segFilterAll>>),
      basePath \o MkPath(<<sNK, segP2to3, segFilterXAll>>),
      basePath \o MkPath(<<sNK, segP2to3, segFilterX>>),
      basePath \o MkPath(<<sNK, segP9>>) }

NextFilter == NextWith(MaxNavs, FilterLocations, FilterLocations)

\* sessions over the paths with and without the allPages option
SpecFilter == Init /\ [][NextFilter]_vars

\* locations of an edition alone, of a page, and of a page with the allPages
\* filter
ResetLocations ==
    { basePath \o MkPath(<<sNK>>),
      basePath \o MkPath(<<sNK, segP2>>),
      basePath \o MkPath(<<sNK, segP2, segFilterAll>>) }

NextReset ==
    \/ NextWith(MaxNavs, ResetLocations, ResetLocations)
    \/ \E throws \in BOOLEAN : ClickThumbnail(MaxNavs, throws)

\* sessions that leave a path with the allPages filter for a path without
\* filter segment
SpecReset == Init /\ [][NextReset]_vars

segP1to9 == <<"p", "1", "-", "9">>

\* the ways to a spread: no page segment, one page, a pair, a pair whose
\* second page the edition does not have
SpreadLocations ==
    { basePath \o MkPath(<<sNK>>),
      basePath \o MkPath(<<sNK, segP2>>),
      basePath \o MkPath(<<sNK, segP2to3>>),
      basePath \o MkPath(<<sNK, segP1to9>>) }

NextClicks ==
    \/ NextWith(MaxNavs, SpreadLocations, SpreadLocations)
    \/ \E throws \in BOOLEAN : ClickZone(MaxNavs, throws)

\* sessions with clicks on zone items
SpecClicks == Init /\ [][NextClicks]_vars

\* locations of two manifests, without a zone and with a zone and the allPages
\* filter
KeyLocations ==
    { basePath \o MkPath(<<sNK>>), basePath \o MkPath(<<sXX>>),
      basePath \o MkPath(<<sNK, segP2, segFilterAll, segWz25>>) }

NextKeys ==
    \/ NextWith(MaxNavsLong, KeyLocations, KeyLocations)
    \/ \E key \in {"ArrowDown", "ArrowUp"}, throws \in BOOLEAN :
           KeyDown(MaxNavsLong, key, throws)

\* sessions with arrow keys pressed over the zone list
SpecKeys == Init /\ [][NextKeys]_vars

\* locations of the base path, of an edition and of a page
HistoryLocations ==
    { basePath \o MkPath(<<>>), basePath \o MkPath(<<sNK>>),
      basePath \o MkPath(<<sNK, segP2>>) }

\* href values handed to navigate(): with the base path, the base path alone,
\* relative with and without leading slash, and the base path run into the rest
HistoryHrefs ==
    HistoryLocations
        \cup { basePath, MkPath(<<sNK, segP2>>), SubSeq(MkPath(<<sNK>>), 2, 4),
               basePath \o SubSeq(MkPath(<<sNK>>), 2, 4) }

NextHistory == NextWith(MaxNavs, HistoryLocations, HistoryHrefs)

\* sessions over hrefs in every form navigate() accepts
SpecHistory == Init /\ [][NextHistory]_vars

\* locations with a filter and a zone segment in either order
OrderLocations ==
    { basePath \o MkPath(<<sNK, segP2, segFilterAll, segWz25>>),
      basePath \o MkPath(<<sNK, segP2, segWz25, segFilterAll>>) }

NextOrder == NextWith(MaxNavs, OrderLocations, OrderLocations)

\* sessions over the locations with a filter and a zone segment
SpecOrder == Init /\ [][NextOrder]_vars

\* what createViewer and then the timer of 100 ms leave of the controls, the
\* thumbnails, the zone list and the keyboard handler after a first load of
\* edition doc at /facs/NK/
ViewerSetUp(doc, restrict) ==
    setupPagePreviews(setupWritingZones(
        setupZoomControls(
            setupPagePreviews(
                setupPageNavigation(
                    [pageNav |-> FreshPageNav, zonesList |-> EmptyZonesList,
                     location |-> basePath \o MkPath(<<sNK>>),
                     restrictToCurrentPage |-> restrict,
                     currentEdition |-> doc, currentPages |-> doc.pages,
                     currentZoneLabel |-> Null, currentZonePageIndex |-> Null,
                     zoneKeyboardHandler |-> NoKeyboardHandler],
                    <<1>>, Len(doc.pages.items)),
                <<1>>)),
        <<1>>), <<1>>)

\* a viewer showing the first page of an edition of 1..MaxTotal pages, opened
\* at /facs/NK/
InitPages ==
    \E total \in 1..MaxTotal, restrict \in {"false", "true"} :
        /\ started = TRUE
        /\ viewer = [id |-> 1, world |-> <<Page(1, 1)>>, clips |-> <<NoClip>>,
                     queue |-> <<>>, fits |-> 2,
                     bounds |-> BoundsBy("createViewer", <<Page(1, 1)>>)]
        /\ currentManifestId = sNK
        /\ currentPageSpec = Null
        /\ currentZoneLabel = Null
        /\ currentZonePageIndex = Null
        /\ currentEdition = EditionDocOf(1, total)
        /\ currentPages = EditionDocOf(1, total).pages
        /\ restrictToCurrentPage = restrict
        /\ pagesToLoad = Arr(<<Page(1, 1)>>)
        /\ currentPageIndices = Arr(<<1>>)
        /\ content = ViewerView
        /\ zonesList = ViewerSetUp(EditionDocOf(1, total), restrict).zonesList
        /\ pageNav = ViewerSetUp(EditionDocOf(1, total), restrict).pageNav
        /\ location = basePath \o MkPath(<<sNK>>)
        /\ fetches = {}
        /\ timers = <<>>
        /\ previewTimers = 0
        /\ scriptsPending = 0
        /\ osdDefined = TRUE
        /\ fetchCount = [m \in ManifestIds |-> IF m = sNK THEN 1 ELSE 0]
        /\ destroyCalls = 0
        /\ viewersCreated = 1
        /\ uncaught = FALSE
        /\ cleanup = NoCleanup
        /\ pushed = <<>>
        /\ clipMargins = "undefined"
        /\ zoneKeyboardHandler = [set |-> TRUE, listeners |-> 1]
        /\ navCount = 1
        /\ ev = NoEvent
        /\ lastNav = NoNav
        /\ raced = FALSE
        /\ failedNavs = FALSE
        /\ loaded = {sNK}

\* an edition of NumPages pages whose pages 2 and 3 have the geometries g2 and
\* g3, parsed for fetch ed
EditionDocWith(ed, g2, g3) ==
    [hasSource |-> TRUE, label |-> "NK",
     pages |-> Arr([i \in 1..NumPages |->
                       IF i = 2 THEN [ed |-> ed, idx |-> i, geo |-> g2]
                       ELSE IF i = 3 THEN [ed |-> ed, idx |-> i, geo |-> g3]
                       ELSE Page(ed, i)])]

\* a viewer showing the first page of an edition of NumPages pages, with any
\* two geometries for the pages 2 and 3, opened at /facs/NK/
InitBounds ==
    \E j \in 1..Len(Geometries), k \in 1..Len(Geometries) :
        LET doc == EditionDocWith(1, Geometries[j], Geometries[k]) IN
        /\ started = TRUE
        /\ viewer = [id |-> 1, world |-> <<doc.pages.items[1]>>, clips |-> <<NoClip>>,
                     queue |-> <<>>, fits |-> 2,
                     bounds |-> BoundsBy("createViewer", <<doc.pages.items[1]>>)]
        /\ currentManifestId = sNK
        /\ currentPageSpec = Null
        /\ currentZoneLabel = Null
        /\ currentZonePageIndex = Null
        /\ currentEdition = doc
        /\ currentPages = doc.pages
        /\ restrictToCurrentPage = "false"
        /\ pagesToLoad = Arr(<<doc.pages.items[1]>>)
        /\ currentPageIndices = Arr(<<1>>)
        /\ content = ViewerView
        /\ zonesList = ViewerSetUp(doc, "false").zonesList
        /\ pageNav = ViewerSetUp(doc, "false").pageNav
        /\ location = basePath \o MkPath(<<sNK>>)
        /\ fetches = {}
        /\ timers = <<>>
        /\ previewTimers = 0
        /\ scriptsPending = 0
        /\ osdDefined = TRUE
        /\ fetchCount = [m \in ManifestIds |-> IF m = sNK THEN 1 ELSE 0]
        /\ destroyCalls = 0
        /\ viewersCreated = 1
        /\ uncaught = FALSE
        /\ cleanup = NoCleanup
        /\ pushed = <<>>
        /\ clipMargins = "undefined"
        /\ zoneKeyboardHandler = [set |-> TRUE, listeners |-> 1]
        /\ navCount = 1
        /\ ev = NoEvent
        /\ lastNav = NoNav
        /\ raced = FALSE
        /\ failedNavs = FALSE
        /\ loaded = {sNK}

\* page specs the viewer is set up for
BoundsPageSpecs ==
    { Null, <<"1">>, <<"2">>, <<"3">>, <<"2", "-", "3">>, <<"1", "-", "2">>,
      <<"3", "-", "2">>, <<"2", "-", "9">>, <<"9">> }

\* a call switchPages(pageSpec) on the idle viewer
CallSwitchPages(pageSpec) ==
    /\ TruthyObj(viewer)
    /\ viewer.queue = <<>>
    /\ pageNav.previewListeners < MaxListeners
    /\ Becomes(switchPages(This, pageSpec, Null, Null))
    /\ ev' = [kind |-> "switchPages", nav |-> 0, path |-> pageSpec, result |-> ""]
    /\ UNCHANGED <<started, navCount, lastNav, raced, failedNavs, loaded>>

\* a call initOpenSeadragon(parsePageSpec(pageSpec)) with the library loaded
\* and the viewer idle, which calls createViewer()
CallCreateViewer(pageSpec) ==
    /\ viewersCreated < MaxNavs
    /\ TruthyObj(viewer)
    /\ viewer.queue = <<>>
    /\ Becomes(initOpenSeadragon(This, parsePageSpec(This, pageSpec), FALSE, "true"))
    /\ ev' = [kind |-> "createViewer", nav |-> 0, path |-> pageSpec, result |-> ""]
    /\ UNCHANGED <<started, navCount, lastNav, raced, failedNavs, loaded>>

NextBounds ==
    \/ \E pageSpec \in BoundsPageSpecs : CallSwitchPages(pageSpec)
    \/ \E pageSpec \in BoundsPageSpecs : CallCreateViewer(pageSpec)
    \/ ImageLoaded
    \/ ImageFailed

\* set-ups of the viewer for spreads of pages of every geometry
SpecBounds == InitBounds /\ [][NextBounds]_vars

\* an edition of 0..MaxTotal pages just stored by loadManifestAndRender, before
\* its page spec is parsed
InitParse ==
    \E total \in 0..MaxTotal :
        /\ started = TRUE
        /\ viewer = NoObj
        /\ currentManifestId = sNK
        /\ currentPageSpec = Null
        /\ currentZoneLabel = Null
        /\ currentZonePageIndex = Null
        /\ currentEdition = EditionDocOf(1, total)
        /\ currentPages = EditionDocOf(1, total).pages
        /\ restrictToCurrentPage = "undefined"
        /\ pagesToLoad = NoObj
        /\ currentPageIndices = NoObj
        /\ content = LoadingView
        /\ zonesList = NoObj
        /\ pageNav = NoObj
        /\ location = basePath \o MkPath(<<sNK>>)
        /\ fetches = {}
        /\ timers = <<>>
        /\ previewTimers = 0
        /\ scriptsPending = 0
        /\ osdDefined = FALSE
        /\ fetchCount = [m \in ManifestIds |-> IF m = sNK THEN 1 ELSE 0]
        /\ destroyCalls = 0
        /\ viewersCreated = 0
        /\ uncaught = FALSE
        /\ cleanup = NoCleanup
        /\ pushed = <<>>
        /\ clipMargins = "undefined"
        /\ zoneKeyboardHandler = NoKeyboardHandler
        /\ navCount = 1
        /\ ev = NoEvent
        /\ lastNav = NoNav
        /\ raced = FALSE
        /\ failedNavs = FALSE
        /\ loaded = {sNK}

\* page specs handed to parsePageSpec: absent, single numbers and pairs around
\* the range of pages, and specs with a part that is no number
PageSpecInputs ==
    {Null}
        \cup { NatToStr(n) : n \in 0..(MaxTotal + 1) }
        \cup { NatToStr(l) \o <<"-">> \o NatToStr(r) :
                   l \in 0..(MaxTotal + 1), r \in 0..(MaxTotal + 1) }
        \cup { <<"x">>, <<"3", "-">>, <<"-", "3">>, <<"2", "-", "x">> }

\* a call parsePageSpec(pageSpec); its result is kept as initOpenSeadragon
\* keeps it, in pagesToLoad
CallParsePageSpec(pageSpec) ==
    /\ Becomes([This EXCEPT !.pagesToLoad = Arr(parsePageSpec(This, pageSpec))])
    /\ ev' = [kind |-> "parsePageSpec", nav |-> 0, path |-> pageSpec, result |-> ""]
    /\ UNCHANGED <<started, navCount, lastNav, raced, failedNavs, loaded>>

NextParse == \E pageSpec \in PageSpecInputs : CallParsePageSpec(pageSpec)

\* calls of parsePageSpec for editions of 0..MaxTotal pages
SpecParse == InitParse /\ [][NextParse]_vars

\* the page numbers setupPageNavigation can be called with in an edition of
\* total pages: indexOf(p) + 1 for one or two pages, 0 for a page not found
Spreads(total) ==
    { <<p>> : p \in 0..total } \cup { <<l, r>> : l \in 0..total, r \in 0..total }

\* a call setupPageNavigation(spread, totalPages)
CallSetupPageNavigation(spread) ==
    /\ Becomes(setupPageNavigation(This, spread, Len(currentPages.items)))
    /\ ev' = [kind |-> "setupPageNavigation", nav |-> 0, path |-> <<>>, result |-> ""]
    /\ UNCHANGED <<started, navCount, lastNav, raced, failedNavs, loaded>>

NextPages ==
    \E spread \in Spreads(Len(currentPages.items)) : CallSetupPageNavigation(spread)

\* a call setupPagePreviews(spread)
CallSetupPagePreviews(spread) ==
    /\ pageNav.previewListeners < MaxListeners
    /\ Becomes(setupPagePreviews(This, spread))
    /\ ev' = [kind |-> "setupPagePreviews", nav |-> 0, path |-> <<>>, result |-> ""]
    /\ UNCHANGED <<started, navCount, lastNav, raced, failedNavs, loaded>>

\* a call setupWritingZones(spread)
CallSetupWritingZones(spread) ==
    /\ Becomes(setupWritingZones(This, spread))
    /\ ev' = [kind |-> "setupWritingZones", nav |-> 0, path |-> <<>>, result |-> ""]
    /\ UNCHANGED <<started, navCount, lastNav, raced, failedNavs, loaded>>

NextGroups ==
    \/ \E spread \in Spreads(Len(currentPages.items)) : CallSetupPagePreviews(spread)
    \/ \E spread \in Spreads(Len(currentPages.items)) : CallSetupWritingZones(spread)

\* calls of setupPagePreviews and setupWritingZones for editions of 1..MaxTotal pages
SpecGroups == InitPages /\ [][NextGroups]_vars

\* positions of a zone: none, inside the page, reaching over the right edge,
\* starting right of the page (140 % of a width of 300), starting left of it,
\* and the whole crop of 300 x 480 pixels
ZonePositions ==
    { NoObj, Pos(30, 60, 120, 90), Pos(180, 0, 150, 100), Pos(420, 0, 30, 30),
      Pos(0 - 30, 0, 60, 60), Pos(0, 0, 300, 480) }

\* an edition of NumPages pages whose page 2 has geometry g and two zones at
\* the positions p12 and p5, parsed for fetch ed
EditionDocZones(ed, g, p12, p5) ==
    [hasSource |-> TRUE, label |-> "NK",
     pages |-> Arr([i \in 1..NumPages |->
                       IF i = 2
                       THEN [ed |-> ed, idx |-> i, geo |-> g,
                             zones |-> << Zone(<<"1", "2">>, p12), Zone(<<"5">>, p5) >>]
                       ELSE Page(ed, i)])]

\* a viewer showing the first page of an edition whose page 2 has any two zone
\* positions and a crop of 300 x 480, 400 x 400 or 70 x 50 pixels
InitPreviews ==
    \E p12 \in ZonePositions, p5 \in ZonePositions, j \in 2..Len(Geometries),
       restrict \in {"false", "true"} :
        LET doc == EditionDocZones(1, Geometries[j], p12, p5) IN
        /\ started = TRUE
        /\ viewer = [id |-> 1, world |-> <<doc.pages.items[1]>>, clips |-> <<NoClip>>,
                     queue |-> <<>>, fits |-> 2,
                     bounds |-> BoundsBy("createViewer", <<doc.pages.items[1]>>)]
        /\ currentManifestId = sNK
        /\ currentPageSpec = Null
        /\ currentZoneLabel = Null
        /\ currentZonePageIndex = Null
        /\ currentEdition = doc
        /\ currentPages = doc.pages
        /\ restrictToCurrentPage = restrict
        /\ pagesToLoad = Arr(<<doc.pages.items[1]>>)
        /\ currentPageIndices = Arr(<<1>>)
        /\ content = ViewerView
        /\ zonesList = ViewerSetUp(doc, restrict).zonesList
        /\ pageNav = ViewerSetUp(doc, restrict).pageNav
        /\ location = basePath \o MkPath(<<sNK>>)
        /\ fetches = {}
        /\ timers = <<>>
        /\ previewTimers = 0
        /\ scriptsPending = 0
        /\ osdDefined = TRUE
        /\ fetchCount = [m \in ManifestIds |-> IF m = sNK THEN 1 ELSE 0]
        /\ destroyCalls = 0
        /\ viewersCreated = 1
        /\ uncaught = FALSE
        /\ cleanup = NoCleanup
        /\ pushed = <<>>
        /\ clipMargins = "undefined"
        /\ zoneKeyboardHandler = [set |-> TRUE, listeners |-> 1]
        /\ navCount = 1
        /\ ev = NoEvent
        /\ lastNav = NoNav
        /\ raced = FALSE
        /\ failedNavs = FALSE
        /\ loaded = {sNK}

\* spreads setupWritingZones is called with
PreviewSpreads == { <<1>>, <<2>>, <<2, 3>>, <<3>> }

NextPreviews ==
    \E spread \in PreviewSpreads : CallSetupWritingZones(spread)

\* calls of setupWritingZones over editions with zones inside and outside a page
SpecPreviews == InitPreviews /\ [][NextPreviews]_vars

\* calls of setupPageNavigation for every spread of editions of 1..MaxTotal pages
SpecPages == InitPages /\ [][NextPages]_vars

\* sessions over the paths with zone and filter segments
SpecZones == Init /\ [][NextZones]_vars

\* ------------------------------------------------------------------------
\* Properties
\* ------------------------------------------------------------------------

\* the last step was a user event that ended in route(path)
IsRoute(e) == e.kind \in {"start", "navigate", "popstate"}

\* the viewer is mounted in the displayed viewer view and nothing is pending
ViewerReady == TruthyObj(viewer) /\ content.view = "viewer" /\ ~PendingWork

\* the 404 view with its recovery link to the base path
IsNotFoundView(c) ==
    c.view = "error" /\ c.title = "404 - Not Found" /\ c.backLink = basePath \o <<"/">>

\* the page numbers a page spec names in an edition of NumPages pages
PagesNamed(pageSpec) ==
    LET ref == [currentPages |-> EditionDoc(0).pages]
        pages == parsePageSpec(ref, pageSpec)
    IN  [i \in 1..Len(pages) |-> pages[i].idx]

\* C1: the completion of a fetch started by a navigation that is no longer the
\* most recent one changes neither the displayed content nor the current
\* manifest, page spec or zone.
C1_StaleFetchDiscarded ==
    [][(ev'.kind = "fetchDone" /\ ev'.nav < navCount)
        => UNCHANGED <<content, currentManifestId, currentPageSpec, currentZoneLabel,
                       currentZonePageIndex>>]_vars

\* C2: with the viewer Ready, routing a path that names the current manifest
\* and the current page spec (a path without page segment included) leaves the
\* viewer, its images and the displayed view as they are: no destroy, no new
\* viewer, no reload.
C2_SamePageKeepsViewer ==
    [][(/\ ViewerReady
        /\ IsRoute(ev')
        /\ NavIntent(ev'.path).manifestId = currentManifestId
        /\ NavIntent(ev'.path).pageSpec = currentPageSpec)
        => /\ UNCHANGED <<viewer, content, fetches, timers, scriptsPending>>
           /\ UNCHANGED <<destroyCalls, viewersCreated, currentPageIndices>>]_vars

\* C3: with the viewer Ready, routing a path that names the current manifest
\* and another page spec keeps the viewer instance (no destroy, no new viewer),
\* removes every placed image and requests one image per page of the new
\* spread.
C3_PageSwapKeepsViewer ==
    [][(/\ ViewerReady
        /\ IsRoute(ev')
        /\ NavIntent(ev'.path).manifestId = currentManifestId
        /\ NavIntent(ev'.path).pageSpec /= currentPageSpec)
        => /\ TruthyObj(viewer')
           /\ viewer'.id = viewer.id
           /\ UNCHANGED <<destroyCalls, viewersCreated>>
           /\ viewer'.world = <<>>
           /\ viewer'.queue = viewer.queue \o
                  ImageRequests(parsePageSpec(This, NavIntent(ev'.path).pageSpec),
                      BoundsBy("switchPages",
                               parsePageSpec(This, NavIntent(ev'.path).pageSpec)))]_vars

\* C4: once a full reload (other manifest, or no viewer yet) has fetched its
\* edition successfully and nothing is pending, a viewer exists in the viewer
\* view and shows exactly the pages the path's page spec names.
C4_FullReloadShowsPages ==
    (lastNav.full /\ lastNav.result = "ok" /\ ~raced /\ ~PendingWork)
        => /\ TruthyObj(viewer)
           /\ content.view = "viewer"
           /\ currentPageIndices = Arr(PagesNamed(lastNav.pageSpec))

\* C5: after a failed navigation, a navigation to a valid path of a registered
\* manifest whose fetch does not fail ends with the viewer view displayed: the
\* component does not stay on the error or loading view.
C5_RecoversAfterFailure ==
    (/\ failedNavs /\ ~raced /\ ~PendingWork
     /\ lastNav.manifestId \in DOMAIN editionUrls
     /\ Len(PagesNamed(lastNav.pageSpec)) > 0
     /\ lastNav.result \in {"ok", "none"})
        => content.view = "viewer"

\* C6: cleanupViewer lets no exception escape, and on its return the router
\* references no viewer, whether destroy() threw or not.
C6_CleanupNeverThrows ==
    /\ ~uncaught
    /\ (cleanup.called => ~cleanup.left)
    /\ (cleanup.called /\ IsRoute(ev)) => ~TruthyObj(viewer)

\* C6 witness: destroy() threw inside cleanupViewer during a navigation
C6_Witness ==
    cleanup.called /\ cleanup.threw /\ IsRoute(ev) /\ ~TruthyObj(viewer) /\ ~uncaught

\* C7: routing a manifest id that is not in the registry renders the 404 view
\* with its link to the base path, issues no fetch and constructs no viewer.
C7_UnknownManifestNotFound ==
    [][(IsRoute(ev') /\ NavIntent(ev'.path).manifestId \notin DOMAIN editionUrls)
        => /\ IsNotFoundView(content')
           /\ UNCHANGED <<fetches, fetchCount, viewersCreated, timers>>]_vars

\* C8: a fetch answered with a non-success status, or with a body holding no
\* non-empty array, ends in the error view with a link to the base path; no
\* viewer is set up from it and the current manifest, pages and page spec keep
\* their values.
C8_LoadFailureShowsError ==
    [][(ev'.kind = "fetchDone" /\ ev'.result \in {"status", "notjson", "noarray"})
        => /\ content'.view = "error"
           /\ content'.backLink = basePath \o <<"/">>
           /\ UNCHANGED <<viewer, viewersCreated, timers, scriptsPending>>
           /\ UNCHANGED <<currentManifestId, currentPages, currentPageSpec>>]_vars

\* C8 witness: a failed load after an earlier successful one
C8_Witness ==
    /\ ev.kind = "fetchDone"
    /\ ev.result \in {"status", "noarray"}
    /\ content.view = "error"
    /\ currentManifestId = sNK
    /\ TruthyObj(viewer)

\* C9: once a manifest id has been loaded successfully, no later step issues
\* another fetch for it.
C9_LoadedIsCached ==
    [][\A m \in ManifestIds : m \in loaded => fetchCount'[m] = fetchCount[m]]_vars

\* a segment of a path is one of the shapes the path grammar knows
RecognisedSegment(segments, i) ==
    \/ i = 2 /\ StartsWith(segments[i], <<"p">>)
    \/ StartsWith(segments[i], <<"f", "i", "l", "t", "e", "r", ":">>)
    \/ StartsWith(segments[i], <<"w", "z">>)

\* C10: a path of two or more segments with a segment of no recognised shape
\* ends in the 404 view.
C10_UnrecognisedSegmentNotFound ==
    (/\ IsRoute(ev)
     /\ Len(Segments(ev.path)) >= 2
     /\ \E i \in 2..Len(Segments(ev.path)) : ~RecognisedSegment(Segments(ev.path), i))
        => IsNotFoundView(content)

\* the zone segment of a path has a page index that is not a number
HasBadZoneIndex(path) ==
    LET segments == Segments(path) IN
    /\ Len(segments) >= 3
    /\ TruthyStr(LastMarked(segments, 3, FALSE, TRUE, Null))
    /\ ParseSegments(segments).zonePageIndex = NaN

\* C11: a path whose zone segment has a non-numeric page index ends in an
\* error view, and the current zone page index is never not-a-number.
C11_BadZoneIndexRejected ==
    /\ currentZonePageIndex /= NaN
    /\ (IsRoute(ev) /\ HasBadZoneIndex(ev.path)) => content.view = "error"

segFilterOther == <<"f", "i", "l", "t", "e", "r", ":", "x">>

\* C12: from every state, routing /m/pP/filter:f/wzZ/ and routing
\* /m/pP/wzZ/filter:f/ leave the same state behind.
C12_FilterZoneOrderIrrelevant ==
    \A m \in {sNK, sXX}, pg \in {segP2, segP2to3, segP9},
       f \in {segFilterAll, segFilterOther}, z \in {segWz25, segWzX5},
       throws \in BOOLEAN :
        route(This, navCount + 1, MkPath(<<m, pg, f, z>>), throws)
            = route(This, navCount + 1, MkPath(<<m, pg, z, f>>), throws)

\* C12 witness: with the viewer present, a path with the zone before the filter
\* was routed and both the filter and the zone took effect
C12_Witness ==
    /\ IsRoute(ev)
    /\ ev.path = MkPath(<<sNK, segP2, segWz25, segFilterAll>>)
    /\ TruthyObj(viewer)
    /\ restrictToCurrentPage = "false"
    /\ currentZoneLabel = <<"5">>
    /\ currentZonePageIndex = Num(2)
    /\ TruthyObj(zonesList)
    /\ zonesList.activeLabel = <<"5">>

\* C13: routing a path without segments never renders the 404 view: it pushes
\* /facs/NK/ and starts the load of NK without page spec; when a load of NK
\* without page spec succeeds, the first page of NK is handed to the viewer.
C13_EmptyPathRedirects ==
    [][LET redirected ==
               /\ content' = LoadingView
               /\ pushed' /= <<>>
               /\ pushed'[Len(pushed')] = basePath \o MkPath(<<sNK>>)
               /\ \E f \in fetches' \ fetches :
                      /\ f.nav = ev'.nav /\ f.manifestId = sNK
                      /\ f.pageSpec = Null /\ f.url = editionUrls[sNK]
           firstPage ==
               \A f \in fetches \ fetches' :
                   \/ ~(f.manifestId = sNK /\ f.pageSpec = Null)
                   \/ /\ content' = ViewerView
                      /\ currentManifestId' = sNK
                      /\ timers' = Append(timers, <<Page(f.nav, 1)>>)
       IN  /\ ((IsRoute(ev') /\ Segments(ev'.path) = <<>>) => redirected)
           /\ ((ev'.kind = "fetchDone" /\ ev'.result = "ok") => firstPage)]_vars

\* C13 witness: the page was opened at the base path and the redirect to
\* /facs/NK/ started the load
C13_Witness ==
    /\ ev.kind = "start"
    /\ Segments(ev.path) = <<>>
    /\ pushed = <<basePath \o MkPath(<<sNK>>)>>
    /\ content = LoadingView
    /\ fetchCount[sNK] = 1

\* C16: with the first page displayed alone in an edition of at least three
\* pages, the prev control is disabled and the next control is enabled and
\* leads to the spread p2-3.
C16_FirstPageNextIsSpread ==
    (/\ TruthyObj(pageNav) /\ pageNav.info /= <<>>
     /\ pageNav.info[1] = <<1>> /\ pageNav.info[2] >= 3)
        => /\ pageNav.prevDisabled
           /\ ~pageNav.nextDisabled
           /\ ParseSegments(Segments(getCurrentPath(pageNav.nextPath))).pageSpec
                  = <<"2", "-", "3">>

\* the page numbers of a page spec: '2-3' is <<2, 3>>, '4' is <<4>>
SpecNumbers(pageSpec) ==
    LET parts == Split(pageSpec, "-") IN
    [i \in 1..Len(parts) |-> ParseInt(parts[i])[2]]

\* the page spec in the path of a prev / next handler
PathPageSpec(path) == ParseSegments(Segments(getCurrentPath(path))).pageSpec

\* the previous spread the page grid defines: <<>> when there is none
ExpectedPrev(spread, total) ==
    IF Len(spread) = 2
    THEN (IF spread[1] > 2 THEN <<spread[1] - 2, spread[1] - 1>>
          ELSE IF spread[1] = 2 THEN <<1>> ELSE <<>>)
    ELSE (IF spread[1] > 1 THEN <<spread[1] - 1>> ELSE <<>>)

\* the next spread the page grid defines: <<>> when there is none
ExpectedNext(spread, total) ==
    IF Len(spread) = 2
    THEN (IF spread[2] < total - 1 THEN <<spread[2] + 1, spread[2] + 2>>
          ELSE IF spread[2] = total - 1 THEN <<total>> ELSE <<>>)
    ELSE (IF spread[1] < total THEN <<spread[1] + 1>> ELSE <<>>)

\* C15: after setupPageNavigation(spread, total), the prev and the next control
\* are disabled exactly when the grid defines no previous / next spread, and an
\* enabled control leads to that spread.
C15_PrevNextSpecs ==
    (TruthyObj(pageNav) /\ pageNav.info /= <<>>) =>
        LET spread == pageNav.info[1]
            total == pageNav.info[2]
        IN  /\ pageNav.prevDisabled = (ExpectedPrev(spread, total) = <<>>)
            /\ pageNav.nextDisabled = (ExpectedNext(spread, total) = <<>>)
            /\ ~pageNav.prevDisabled
                   => SpecNumbers(PathPageSpec(pageNav.prevPath)) = ExpectedPrev(spread, total)
            /\ ~pageNav.nextDisabled
                   => SpecNumbers(PathPageSpec(pageNav.nextPath)) = ExpectedNext(spread, total)

\* C15 witness: the spread 4-5 of six pages, prev leading to 2-3 and next to
\* the single last page
C15_Witness ==
    /\ ev.kind = "setupPageNavigation"
    /\ pageNav.info = <<<<4, 5>>, 6>>
    /\ ~pageNav.prevDisabled /\ ~pageNav.nextDisabled
    /\ PathPageSpec(pageNav.prevPath) = <<"2", "-", "3">>
    /\ PathPageSpec(pageNav.nextPath) = <<"6">>

\* getPageSpec(pageIndex): page 1 alone, then the pair an index falls in
getPageSpec(pageIndex) ==
    IF pageIndex = 1 THEN <<"1">>
    ELSE IF pageIndex % 2 = 0
         THEN NatToStr(pageIndex) \o <<"-">> \o NatToStr(pageIndex + 1)
         ELSE NatToStr(pageIndex - 1) \o <<"-">> \o NatToStr(pageIndex)

\* dataset.pages of the thumbnail groups setupPagePreviews builds for total pages
ThumbnailSpecs(total) ==
    { IF i = 0 THEN <<"1">>
      ELSE IF i + 2 <= total THEN NatToStr(i + 1) \o <<"-">> \o NatToStr(i + 2)
      ELSE NatToStr(i + 1) :
        i \in { k \in 0..(total - 1) : k = 0 \/ k % 2 = 1 } }

\* page specs of the page links populateNotebookModal builds for total pages:
\* the link of a row is written for each of its pages that exists
NotebookLinkSpecs(total) ==
    { IF i = 0 THEN <<"1">>
      ELSE NatToStr(i + 1) \o <<"-">> \o NatToStr(i + 2) :
        i \in { k \in 0..(total - 1) : k = 0 \/ k % 2 = 1 } }

\* every page spec the router writes into a link or a handler in state s
GeneratedPageSpecs(s) ==
    LET total == Len(s.currentPages.items)
        spread == s.currentPageIndices.items
    IN  { getPageSpec(i) : i \in 1..total }
            \cup { ZoneClickPageSpec(spread, i, total) : i \in 1..total }
            \cup ThumbnailSpecs(total)
            \cup NotebookLinkSpecs(total)
            \cup (IF TruthyObj(s.pageNav) /\ ~s.pageNav.prevDisabled /\ TruthyStr(s.pageNav.prevPath)
                  THEN {PathPageSpec(s.pageNav.prevPath)} ELSE {})
            \cup (IF TruthyObj(s.pageNav) /\ ~s.pageNav.nextDisabled /\ TruthyStr(s.pageNav.nextPath)
                  THEN {PathPageSpec(s.pageNav.nextPath)} ELSE {})

\* a page spec that names only pages 1..total and does not pair page 1
ValidPageSpec(spec, total) ==
    LET nums == SpecNumbers(spec) IN
    /\ Len(nums) \in {1, 2}
    /\ \A i \in 1..Len(nums) : nums[i] \in 1..total
    /\ Len(nums) = 2 => nums[1] >= 2

\* C17: while a viewer shows pages of an edition, every page spec the router
\* has generated names only pages 1..total, never pairs page 1, and leaves the
\* last page alone when it has no partner.
C17_GeneratedSpecsInRange ==
    (TruthyObj(viewer) /\ TruthyObj(currentPages) /\ TruthyObj(currentPageIndices)
        /\ content = ViewerView /\ Len(currentPages.items) > 0
        /\ \A i \in 1..Len(currentPageIndices.items) :
               currentPageIndices.items[i] \in 1..Len(currentPages.items))
        => \A spec \in GeneratedPageSpecs(This) :
               ValidPageSpec(spec, Len(currentPages.items))

\* the numbers 1..total among the first two '-' separated parts of a page spec
InRangeNumbers(pageSpec, total) ==
    LET parts == Split(pageSpec, "-")
        nums == [i \in 1..(IF Len(parts) > 2 THEN 2 ELSE Len(parts)) |-> ParseInt(parts[i])]
    IN  SelectSeq(nums, LAMBDA n : IsNum(n) /\ n[2] \in 1..total)

\* C18: parsePageSpec returns the in-range pages a spec names, in order (one
\* page for an in-range single spec, at most two for a pair), the first page
\* for an absent spec, and never an absent page.
C18_ParsedPagesDefined ==
    ev.kind = "parsePageSpec" =>
        LET total == Len(currentPages.items)
            result == pagesToLoad.items
        IN  /\ \A i \in 1..Len(result) : result[i] /= NoObj
            /\ IF ~TruthyStr(ev.path) THEN Len(result) <= 1
               ELSE LET nums == InRangeNumbers(ev.path, total)
                    IN  /\ Len(result) = Len(nums)
                        /\ \A i \in 1..Len(nums) : result[i] = Page(1, nums[i][2])
                        /\ Len(result) <= (IF Includes(ev.path, "-") THEN 2 ELSE 1)

\* C19: when an image of a two-page spread has loaded, fitBounds has been
\* called once more if it was the last page of the spread, and not at all if
\* it was the first.
C19_FitOnceOnLastPage ==
    [][(ev'.kind = "imageLoaded" /\ Head(viewer.queue).count = 2)
          => viewer'.fits = viewer.fits + (IF Head(viewer.queue).last THEN 1 ELSE 0)]_vars

\* the pages the viewer was last set up for
ShownPages == [i \in 1..Len(currentPageIndices.items) |->
                  currentPages.items[currentPageIndices.items[i]]]

\* right edge of the placement rectangle of a page: x + width
PlacedRight(page) ==
    RAdd(calculatePagePosition(page).x, calculatePagePosition(page).width)

\* bottom edge of the placement rectangle: y + width * pxHeight / pxWidth
PlacedBottom(page) ==
    RAdd(calculatePagePosition(page).y,
         RDiv(RMul(calculatePagePosition(page).width, RInt(Geometry(page).pxHeight)),
              RInt(Geometry(page).pxWidth)))

\* C20: the world bounds of the viewer are the smallest rectangle around the
\* placement rectangles of the pages it was set up for, widened by 50 on each
\* of the four sides, and createViewer and switchPages give the same bounds
\* for these pages.
C20_WorldBoundsPadded ==
    (TruthyObj(viewer) /\ TruthyObj(currentPageIndices) /\ Len(currentPageIndices.items) > 0)
        => LET pages == ShownPages
               b == BoundsRect(viewer.bounds)
               left == RAdd(b.x, RInt(50))
               top == RAdd(b.y, RInt(50))
               right == RSub(RAdd(b.x, b.width), RInt(50))
               bottom == RSub(RAdd(b.y, b.height), RInt(50))
               I == 1..Len(pages)
           IN  /\ \A i \in I : RLe(left, calculatePagePosition(pages[i]).x)
               /\ \E i \in I : left = calculatePagePosition(pages[i]).x
               /\ \A i \in I : RLe(top, calculatePagePosition(pages[i]).y)
               /\ \E i \in I : top = calculatePagePosition(pages[i]).y
               /\ \A i \in I : RLe(PlacedRight(pages[i]), right)
               /\ \E i \in I : right = PlacedRight(pages[i])
               /\ \A i \in I : RLe(PlacedBottom(pages[i]), bottom)
               /\ \E i \in I : bottom = PlacedBottom(pages[i])
               /\ WorldBoundsCreate(pages) = WorldBoundsSwitch(pages)

\* C20 witness: switchPages has set the viewer up for the spread 2-3 of a verso
\* and a recto of different sizes, and createViewer gives the same bounds
C20_Witness ==
    /\ ev.kind = "switchPages"
    /\ currentPageIndices = Arr(<<2, 3>>)
    /\ Geometry(currentPages.items[2]) = Geometries[3]
    /\ Geometry(currentPages.items[3]) = Geometries[4]
    /\ viewer.bounds.fn = "switchPages"
    /\ BoundsRect(viewer.bounds) = WorldBoundsCreate(ShownPages)
    /\ BoundsRect(viewer.bounds).x = RInt(0 - 275)
    /\ BoundsRect(viewer.bounds).width = RSub(RAdd(PlacedRight(currentPages.items[3]), RInt(100)),
                                  calculatePagePosition(currentPages.items[2]).x)

\* the path updateUrlWithFilters() navigates to in state s; null when it
\* returns without navigating
updateUrlWithFiltersPath(s) ==
    IF ~TruthyStr(s.currentManifestId) \/ ~TruthyStr(s.currentPageSpec) THEN Null
    ELSE <<"/">> \o s.currentManifestId \o <<"/", "p">> \o s.currentPageSpec \o <<"/">>
             \o FilterSegment(getFilterSpec(s))
             \o (IF TruthyStr(s.currentZoneLabel) /\ TruthyNum(s.currentZonePageIndex)
                 THEN ZoneSegment(s.currentZonePageIndex[2], s.currentZoneLabel)
                 ELSE <<>>)

\* the path the click handler of the zone label of page pageIndex navigates to
ZoneClickPath(s, pageIndex, label) ==
    basePath \o <<"/">> \o getCurrentManifestId(s) \o <<"/", "p">>
        \o ZoneClickPageSpec(s.currentPageIndices.items, pageIndex,
                             Len(s.currentPages.items))
        \o <<"/">> \o FilterSegment(getFilterSpec(s)) \o ZoneSegment(pageIndex, label)

\* labels of the writing zones of a page
ZoneLabels == { <<"5">>, <<"1", "2">> }

\* what route() parses out of a path handed to navigate()
ParsedPath(path) == ParseSegments(Segments(NormalisePath(path)))

\* C14: in every state with a viewer, route() parses out of the path that
\* updateUrlWithFilters builds the manifest id, page spec, filter spec and zone
\* of the state, out of the paths of the prev and next handlers the manifest id
\* of the state, and out of the path of a zone click the manifest id and filter
\* spec of the state and the page spec and zone the path was built from.
C14_BuiltPathsRoundTrip ==
    (TruthyObj(viewer) /\ content = ViewerView /\ TruthyObj(currentPages)
        /\ TruthyObj(currentPageIndices))
        => /\ TruthyStr(currentPageSpec) =>
                  /\ TruthyStr(updateUrlWithFiltersPath(This))
                  /\ ParsedPath(updateUrlWithFiltersPath(This)) =
                         [manifestId |-> currentManifestId,
                          pageSpec |-> currentPageSpec,
                          filterSpec |-> getFilterSpec(This),
                          zoneLabel |-> currentZoneLabel,
                          zonePageIndex |-> currentZonePageIndex]
           /\ (TruthyObj(pageNav) /\ ~pageNav.prevDisabled /\ TruthyStr(pageNav.prevPath))
                  => ParsedPath(pageNav.prevPath).manifestId = currentManifestId
           /\ (TruthyObj(pageNav) /\ ~pageNav.nextDisabled /\ TruthyStr(pageNav.nextPath))
                  => ParsedPath(pageNav.nextPath).manifestId = currentManifestId
           /\ TruthyObj(zonesList) =>
                  \A i \in 1..Len(zonesList.shown), label \in ZoneLabels :
                      zonesList.shown[i] \in 1..Len(currentPages.items)
                          => ParsedPath(ZoneClickPath(This, zonesList.shown[i], label)) =
                                 [manifestId |-> currentManifestId,
                                  pageSpec |-> ZoneClickPageSpec(currentPageIndices.items,
                                                   zonesList.shown[i],
                                                   Len(currentPages.items)),
                                  filterSpec |-> getFilterSpec(This),
                                  zoneLabel |-> label,
                                  zonePageIndex |-> Num(zonesList.shown[i])]

\* mm per pixel of a page: mm.width / px.xywh.w
MmPerPx(page) == RDiv(RInt(Geometry(page).mmWidth), RInt(Geometry(page).w))

\* world x of the left and the right edge of the xywh rectangle of a placed page
CropLeft(page) ==
    RAdd(calculatePagePosition(page).x, RMul(RInt(Geometry(page).x), MmPerPx(page)))

CropRight(page) ==
    RAdd(calculatePagePosition(page).x,
         RMul(RInt(Geometry(page).x + Geometry(page).w), MmPerPx(page)))

\* world y of the top edge of the xywh rectangle of a placed page
CropTop(page) ==
    RAdd(calculatePagePosition(page).y, RMul(RInt(Geometry(page).y), MmPerPx(page)))

\* C21: every page the viewer is set up for is placed with the right edge of
\* its xywh rectangle at x = 0 if it is a verso, with the left edge at x = 0 if
\* it is a recto, and with the top edge of the rectangle at y = 0.
C21_CropInPageSlot ==
    (TruthyObj(viewer) /\ TruthyObj(currentPageIndices) /\ Len(currentPageIndices.items) > 0)
        => \A i \in 1..Len(ShownPages) :
               /\ IF Geometry(ShownPages[i]).verso
                  THEN CropRight(ShownPages[i]) = RInt(0)
                  ELSE CropLeft(ShownPages[i]) = RInt(0)
               /\ CropTop(ShownPages[i]) = RInt(0)

\* C22: while margin hiding is enabled every recto image in the world carries
\* the clip (xywh.x, 0, px.width - xywh.x, px.height) and no verso image
\* carries a clip; while it is not enabled no image carries a clip.
C22_ClipPolicy ==
    TruthyObj(viewer) =>
        \A i \in 1..Len(viewer.world) :
            IF clipMargins = "true" /\ ~Geometry(viewer.world[i]).verso
            THEN viewer.clips[i] =
                     [clip |-> TRUE, x |-> Geometry(viewer.world[i]).x, y |-> 0,
                      width |-> Geometry(viewer.world[i]).pxWidth
                                    - Geometry(viewer.world[i]).x,
                      height |-> Geometry(viewer.world[i]).pxHeight]
            ELSE viewer.clips[i] = NoClip

\* the groups of an edition of total pages: page 1, then (2,3), (4,5), ...,
\* and a last page without partner alone
ExpectedGroups(total) ==
    [k \in 1..(1 + total \div 2) |->
        IF k = 1 THEN <<1>>
        ELSE IF 2 * k - 1 <= total THEN <<2 * k - 2, 2 * k - 1>>
        ELSE <<2 * k - 2>>]

\* every page 1..total is in exactly one of the groups
ExactlyOnce(groups, total) ==
    \A p \in 1..total :
        Cardinality({ <<k, j>> \in (1..Len(groups)) \X (1..2) :
                         j <= Len(groups[k]) /\ groups[k][j] = p }) = 1

\* C23: for every total >= 1 the headings of the zone list in all-pages mode
\* and the thumbnail groups are page 1 alone, then (2,3), (4,5), ..., with a last
\* page without partner alone, and every page is in exactly one group.
C23_DisplayGrouping ==
    LET total == Len(currentPages.items)
        thumbs == [k \in 1..Len(pageNav.thumbnails) |-> pageNav.thumbnails[k].imgs]
    IN  /\ (ev.kind = "setupPagePreviews")
            => /\ thumbs = ExpectedGroups(total)
               /\ ExactlyOnce(thumbs, total)
               /\ \A k \in 1..Len(thumbs) :
                      pageNav.thumbnails[k].pages =
                          IF Len(thumbs[k]) = 2
                          THEN NatToStr(thumbs[k][1]) \o <<"-">> \o NatToStr(thumbs[k][2])
                          ELSE NatToStr(thumbs[k][1])
        /\ (ev.kind = "setupWritingZones" /\ restrictToCurrentPage /= "true")
            => /\ zonesList.pagePairs = ExpectedGroups(total)
               /\ ExactlyOnce(zonesList.pagePairs, total)

\* thumbnails and headings of an edition whose last page has no partner
C23_Witness ==
    /\ ev.kind \in {"setupPagePreviews", "setupWritingZones"}
    /\ Len(currentPages.items) = 4
    /\ restrictToCurrentPage /= "true"
    /\ Len(pageNav.thumbnails) = 3
    /\ pageNav.thumbnails[3].imgs = <<4>>
    /\ zonesList.pagePairs = << <<1>>, <<2, 3>>, <<4>> >>

\* the item the arrow key is to activate: 0-based position in the rendered list
ExpectedKeyTarget(key, activeIndex, length) ==
    IF key = "ArrowDown"
    THEN (IF activeIndex = 0 - 1 \/ activeIndex = length - 1 THEN 0 ELSE activeIndex + 1)
    ELSE (IF activeIndex = 0 - 1 \/ activeIndex = 0 THEN length - 1 ELSE activeIndex - 1)

\* the zone of item is the active zone of the state reached
ActivatedNext(item) ==
    /\ currentZoneLabel' = item.label
    /\ currentZonePageIndex' = Num(item.page)
    /\ TruthyObj(zonesList')
    /\ \E i \in 1..Len(zonesList'.items) : zonesList'.items[i].active
    /\ \A i \in 1..Len(zonesList'.items) :
           zonesList'.items[i].active
               <=> (zonesList'.items[i].label = item.label
                    /\ zonesList'.items[i].page = item.page)

KeyStepActivates ==
    (ev'.kind \in {"ArrowDown", "ArrowUp"})
        => ActivatedNext(zonesList.items[
               ExpectedKeyTarget(ev'.kind, FindActive(zonesList.items, 0),
                                 Len(zonesList.items)) + 1])

\* C24: with zone items rendered, ArrowDown activates the zone after the active
\* one and ArrowUp the one before it, wrapping around at both ends; with no
\* active item ArrowDown activates the first and ArrowUp the last.  At most one
\* zone keyboard handler is registered at any time.
C24_ZoneKeyboardNavigation ==
    /\ [](zoneKeyboardHandler.listeners <= 1)
    /\ [][KeyStepActivates]_vars

\* the position preview rendered for a zone item
ItemPreview(item) ==
    ZonePreview(currentPages.items[item.page], Zone(item.label, item.pos))

\* the zones whose label items the list has to show: those of the shown pages
ListedZones ==
    LET flat == Concat(zonesList.pagePairs)
    IN  Concat([k \in 1..Len(flat) |->
                   IF flat[k] \in 1..Len(currentPages.items)
                   THEN [n \in 1..Len(WritingZones(currentPages.items[flat[k]])) |->
                            [page |-> flat[k],
                             zone |-> WritingZones(currentPages.items[flat[k]])[n]]]
                   ELSE <<>>])

\* percentage of a / b as an exact fraction
Pct(a, b) == RMul(RDiv(RInt(a), RInt(b)), RInt(100))

\* the zone has no position data, or one of its percentages is below 0 or above 100
BadPosition(page, zone) ==
    \/ zone.pos = NoObj
    \/ \E v \in { Pct(zone.pos.y, Geometry(page).h), Pct(zone.pos.x, Geometry(page).w),
                  Pct(zone.pos.w, Geometry(page).w), Pct(zone.pos.h, Geometry(page).h) } :
           ~RLe(v, RInt(100)) \/ ~RLe(RInt(0), v)

C26_PreviewWithinFrame ==
    (ev.kind = "setupWritingZones")
        => \A i \in 1..Len(zonesList.items) :
               LET preview == ItemPreview(zonesList.items[i]) IN
               preview.rendered
                   => /\ RLe(RInt(0), preview.left)
                      /\ RLe(RInt(0), preview.top)
                      /\ RLe(RAdd(preview.left, preview.width), RInt(100))
                      /\ RLe(RAdd(preview.top, preview.height), RInt(100))

\* the filter segment of the current location lists the allPages option
LocationHasAllPages ==
    LET filterSpec == ParseSegments(Segments(getCurrentPath(location))).filterSpec
    IN  /\ TruthyStr(filterSpec)
        /\ \E i \in 1..Len(Split(filterSpec, ",")) :
               Split(filterSpec, ",")[i] = <<"a", "l", "l", "P", "a", "g", "e", "s">>

\* the zone list has been filled after the path of the current location was routed
ZoneListRouted ==
    /\ TruthyObj(zonesList)
    /\ TruthyStr(zonesList.manifestId)
    /\ TruthyObj(currentPageIndices)
    /\ Len(Segments(getCurrentPath(location))) >= 2
    /\ StartsWith(Segments(getCurrentPath(location))[2], <<"p">>)

\* C27: once a path with a page segment is routed, the zone list shows the
\* zones of all pages 1..total when the path has a filter segment whose options
\* include allPages, and those of the displayed spread when it has no filter
\* segment or one without allPages.
C27_AllPagesFilter ==
    ZoneListRouted
        => zonesList.shown = IF LocationHasAllPages
                             THEN [i \in 1..Len(currentPages.items) |-> i]
                             ELSE currentPageIndices.items

\* the relative path of a path: the base path stripped from its start when it
\* starts with it, a leading slash ensured
RelativePath(path) ==
    LET stripped == IF StartsWith(path, basePath) THEN Substring(path, Len(basePath))
                    ELSE path
    IN  IF StartsWith(stripped, <<"/">>) THEN stripped ELSE <<"/">> \o stripped

\* navigate(href) leaves what routing the relative path leaves once the entry
\* base path + relative path is pushed
NavigatePushesAndRoutes ==
    \A href \in HistoryHrefs, throws \in BOOLEAN :
        navigate(This, navCount + 1, href, throws) =
            route([This EXCEPT !.pushed = Append(@, basePath \o RelativePath(href)),
                               !.location = basePath \o RelativePath(href)],
                  navCount + 1, RelativePath(href), throws)

\* a step of navigate adds its one entry (and the one of the redirect when the
\* relative path is empty); a popstate step adds none of its own
HistoryStep ==
    LET redirect == IF Segments(ev'.path) = <<>> THEN <<basePath \o MkPath(<<sNK>>)>>
                    ELSE <<>>
    IN  /\ (ev'.kind = "navigate") => (pushed' = <<basePath \o ev'.path>> \o redirect)
        /\ (ev'.kind = "popstate") => (pushed' = redirect)

\* the popstate listener leaves what routing the location's relative path leaves
PopstateRoutesLocation ==
    \A loc \in HistoryLocations, throws \in BOOLEAN :
        route([This EXCEPT !.location = loc], navCount + 1, getCurrentPath(loc), throws) =
            route([This EXCEPT !.location = loc], navCount + 1, RelativePath(loc), throws)

\* C28: every call of navigate(path) pushes exactly one history entry, the base
\* path followed by the relative path (base path stripped, leading slash
\* ensured), and then routes that relative path; a popstate event routes the
\* relative path of the current location.
C28_NavigateAndPopstate ==
    /\ [](started => (NavigatePushesAndRoutes /\ PopstateRoutesLocation))
    /\ [][HistoryStep]_vars

\* navigate() has pushed the one entry /facs/NK/p2/
C28_Witness ==
    /\ ev.kind = "navigate"
    /\ ev.path = MkPath(<<sNK, segP2>>)
    /\ pushed = <<basePath \o MkPath(<<sNK, segP2>>)>>
    /\ location = basePath \o MkPath(<<sNK, segP2>>)

\* viewers constructed on which destroy() has not been called
LiveViewers ==
    viewersCreated - destroyCalls

\* C29: at most one viewer that has been constructed and not yet destroyed
\* exists, and it is the one the router's viewer field holds: every viewer
\* constructed before it has had destroy() called on it, and with no viewer
\* held every constructed viewer has
C29_SingleLiveViewer ==
    /\ LiveViewers \in {0, 1}
    /\ LiveViewers = 1 <=> TruthyObj(viewer)
    /\ TruthyObj(viewer) => viewer.id = viewersCreated

\* a second viewer has been constructed after the first one was destroyed
C29_Witness ==
    /\ ev.kind = "timer"
    /\ viewersCreated = 2
    /\ destroyCalls = 1
    /\ TruthyObj(viewer)

\* C30: whenever the router holds a viewer, the content shown is the viewer
\* view that hosts it, neither the loading placeholder nor an error view
C30_ViewerOnlyInViewerView ==
    TruthyObj(viewer) => content.view = "viewer"

\* C31: with the viewer ready, the displayed page indices are the indices
\* of the pages that the stored current page spec names
C31_PageSpecDenotesDisplayed ==
    ViewerReady =>
        currentPageIndices = Arr(PageIndices(This, parsePageSpec(This, currentPageSpec)))

\* C32: once no image load is outstanding, every image in the viewer's world
\* is an image of the spread requested last; no image of an earlier spread
\* is present
C32_WorldHoldsLastSpread ==
    (TruthyObj(viewer) /\ viewer.queue = <<>>) =>
        \A i \in 1..Len(viewer.world) :
            \E j \in 1..Len(viewer.bounds.pages) : viewer.world[i] = viewer.bounds.pages[j]

\* the success callbacks still to fire that call fitBounds
FitsOutstanding(queue) ==
    { i \in 1..Len(queue) : queue[i].last }

\* the success callback that fires in this step is the last one to fit the
\* viewport: it was requested before or after a page swap and no request
\* whose callback fits is outstanding after it
LastFitFires ==
    /\ ev'.kind = "imageLoaded"
    /\ Head(viewer.queue).last
    /\ FitsOutstanding(viewer'.queue) = {}

C34_PopstatePushesNothing ==
    [][ev'.kind = "popstate" => pushed' = <<>>]_vars

\* the path has a segment that route() takes as the zone segment
HasZoneSegment(path) ==
    /\ Len(Segments(path)) >= 2
    /\ TruthyStr(LastMarked(Segments(path), 3, FALSE, TRUE, Null))

\* no item of the zone list carries the active mark
NoZoneActive(zl) ==
    TruthyObj(zl) => \A i \in 1..Len(zl.items) : ~zl.items[i].active

\* C35: when route() has handled a path without zone segment, no item of the
\* zone list is marked active, and where the viewer view stays displayed the
\* stored zone label and zone page index are empty
C35_NoZoneSegmentNoActiveZone ==
    [][(IsRoute(ev') /\ ~HasZoneSegment(ev'.path))
          => (/\ NoZoneActive(zonesList')
              /\ ((TruthyObj(viewer') /\ content'.view = "viewer")
                     => (/\ ~TruthyStr(currentZoneLabel')
                         /\ ~TruthyNum(currentZonePageIndex'))))]_vars

\* the path has a segment that route() takes as the filter segment
HasFilterSegment(path) ==
    /\ Len(Segments(path)) >= 2
    /\ TruthyStr(ParseSegments(Segments(path)).filterSpec)

\* C36: when route() has handled a path of one segment or more that has no
\* filter segment, the restriction of the zone list to the current spread is
\* not switched off: an allPages filter of an earlier path is no longer in
\* effect
C36_NoFilterRestrictsToSpread ==
    [][(IsRoute(ev') /\ Len(Segments(ev'.path)) >= 1 /\ ~HasFilterSegment(ev'.path))
          => restrictToCurrentPage' /= "false"]_vars

\* the step is a click on prev, next or a thumbnail group: a navigation to
\* the path one of these controls holds
ControlClicked ==
    \/ ev'.kind = "thumbnail"
    \/ /\ ev'.kind = "navigate"
       /\ TruthyObj(pageNav)
       /\ \/ ~pageNav.prevDisabled /\ NormalisePath(pageNav.prevPath) = ev'.path
          \/ ~pageNav.nextDisabled /\ NormalisePath(pageNav.nextPath) = ev'.path

\* C37: a click on prev, next or a thumbnail group leaves the restriction of
\* the zone list as it was when the control was clicked
C37_ControlsKeepFilter ==
    [][ControlClicked => restrictToCurrentPage' = restrictToCurrentPage]_vars

\* the step is a click on a zone item whose page is part of the displayed
\* spread, in the viewer view of the edition the list was rendered for
ZoneOnSpreadClicked ==
    /\ ev'.kind = "zone"
    /\ TruthyObj(viewer)
    /\ content.view = "viewer"
    /\ zonesList.manifestId = currentManifestId
    /\ zonesList.spread = currentPageIndices.items
    /\ \E i \in 1..Len(zonesList.items) :
           /\ \E j \in 1..Len(zonesList.spread) :
                  zonesList.spread[j] = zonesList.items[i].page
           /\ NormalisePath(ZoneItemPath(This, zonesList.items[i])) = ev'.path

\* C38: a click on a zone item of the displayed spread leaves the images of
\* the viewer and the requests for them as they are and destroys no viewer
C38_ZoneClickKeepsImages ==
    [][ZoneOnSpreadClicked
          => (/\ TruthyObj(viewer')
              /\ viewer'.id = viewer.id
              /\ viewer'.world = viewer.world
              /\ viewer'.queue = viewer.queue
              /\ destroyCalls' = destroyCalls)]_vars

\* the collapsed state of the thumbnail panel after one click on
\* #toggle-preview with listeners click listeners, each of which toggles the
\* class once
CollapsedAfterClick(collapsed, listeners) ==
    IF listeners % 2 = 1 THEN ~collapsed ELSE collapsed

\* C39: once the loads and page swaps of a session are done, the button
\* #toggle-preview of the viewer view carries exactly one click listener of
\* setupPagePreviews, so that one click flips the collapsed state of the
\* thumbnail panel
C39_OneToggleListener ==
    (content.view = "viewer" /\ TruthyObj(pageNav) /\ ~PendingWork)
        => /\ pageNav.previewListeners = 1
           /\ \A collapsed \in BOOLEAN :
                  CollapsedAfterClick(collapsed, pageNav.previewListeners) = ~collapsed

====
